---- MODULE Spec2Model ----
(***************************************************************************)
(* POSIX signal emulation of the Windows native build                      *)
(* (src/windows/patches/signals_win32.c) and the signal_ciao helper        *)
(* (src/windows/signal_ciao.c), as a state machine.                        *)
(*                                                                         *)
(* Threads: one host thread issuing the exported calls one after the       *)
(* other, the console-control callback thread, one timer-queue callback    *)
(* per timer, the external-interrupt watcher thread of each initialize,    *)
(* and the signal_ciao helper process.                                     *)
(***************************************************************************)
EXTENDS Integers, Sequences, FiniteSets, TLC

\* ---------------------------------------------------------------- bounds
\* number of exported calls the host thread makes in one behaviour
MaxCalls == 4
\* number of asynchronous stimuli (console events, helper runs) in one behaviour
MaxEvents == 2
\* child processes the host spawns in a run
MaxSpawns == 2

\* ------------------------------------------------------ program constants
NULL == 0
SIGINT == 2
SIGALRM == 14
SIGUSR1 == 30
\* a signal the CRT handles itself (the default branch of win32_signal)
SIGTERM == 15

SIG_DFL == "SIG_DFL"
SIG_IGN == "SIG_IGN"
\* installed callbacks the host may register
Callbacks == {"h1", "h2"}
Handlers == {SIG_DFL, SIG_IGN} \cup Callbacks
LogicalSignals == {SIGINT, SIGALRM, SIGUSR1}

\* wait results of WaitForSingleObject
WAIT_OBJECT_0 == "WAIT_OBJECT_0"
WAIT_TIMEOUT == "WAIT_TIMEOUT"
WAIT_FAILED == "WAIT_FAILED"

\* console control event types
CTRL_C_EVENT == "CTRL_C_EVENT"
CTRL_BREAK_EVENT == "CTRL_BREAK_EVENT"
CTRL_CLOSE_EVENT == "CTRL_CLOSE_EVENT"
CTRL_LOGOFF_EVENT == "CTRL_LOGOFF_EVENT"
CTRL_SHUTDOWN_EVENT == "CTRL_SHUTDOWN_EVENT"
CtrlTypes == {CTRL_C_EVENT, CTRL_BREAK_EVENT, CTRL_CLOSE_EVENT,
              CTRL_LOGOFF_EVENT, CTRL_SHUTDOWN_EVENT}

\* timeouts given to win32_wait_interrupt: a poll, a finite bound, INFINITE
Timeouts == {"zero", "finite", "INFINITE"}

\* durations (seconds) given to win32_alarm
Durations == {0, 1, 3}

\* process identifiers the engine may run under, and the arguments the
\* signal_ciao helper may be started with
Pids == {42}

\* identifiers of kernel objects: one timer per win32_alarm call; one watcher
\* thread and two unnamed events per win32_signals_init call, of which every
\* second call at most is one unless the host initializes twice in a row
TimerIds == 1..MaxCalls
ThreadIds == 1..((MaxCalls + 1) \div 2)
EventIds == 1..(MaxCalls + 1)

VARIABLES
    \* ---- statics of signals_win32.c
    g_interrupt_event, g_alarm_event, g_alarm_timer,
    g_ext_interrupt_event, g_ext_interrupt_thread, g_ext_interrupt_shutdown,
    current_mask,  \* the static of win32_sigprocmask: the signals in the mask
    g_sigint_handler, g_sigalrm_handler, g_sigusr1_handler,
    \* ---- kernel objects
    events,        \* unnamed events: id -> "free" | "clear" | "set" | "closed"
    ext,           \* the named event: name, state, open handles
    timers,        \* timer-queue timers: id -> record
    ctrlInstalled, \* registrations of win32_ctrl_handler with the console
    crt,           \* the CRT's own disposition of SIGTERM
    pid,           \* GetCurrentProcessId()
    alive,         \* "run" | "dying" (default handling will end it) | "dead"
    \* ---- threads
    host,          \* the host thread: its position inside a blocking call
    ctrl,          \* the console-control callback in flight
    watcher,       \* watcher threads: id -> record
    host2,         \* a second host thread: its position inside win32_alarm
    \* ---- observation
    obs,           \* what the last step did: operation, handler calls, result
    hist,          \* deliveries on the external channel and what the host saw
    \* ---- process lifecycle (process_win32.c)
    proc,          \* the process record, handles, descriptors, errno, children
    calls, stimuli \* budget used

statics == <<g_interrupt_event, g_alarm_event, g_alarm_timer,
             g_ext_interrupt_event, g_ext_interrupt_thread,
             g_ext_interrupt_shutdown, current_mask>>
registry == <<g_sigint_handler, g_sigalrm_handler, g_sigusr1_handler>>
kernel == <<events, ext, timers, ctrlInstalled, crt, pid, alive>>
threads == <<host, ctrl, watcher, host2>>
vars == <<statics, registry, kernel, threads, obs, hist, proc, calls, stimuli>>

\* ------------------------------------------------------------ observation
\* the interrupt indicator: the event g_interrupt_event designates
IntrState == IF g_interrupt_event = NULL THEN "none" ELSE events[g_interrupt_event]

\* op: the step; inv: the values called as handlers during it, in order;
\* ret: the value returned to the caller, if the step returns; info: detail;
\* pre: the interrupt indicator before the step
Obs(op, inv, ret, info) ==
    [op |-> op, inv |-> inv, ret |-> ret, info |-> info, pre |-> IntrState]

\* ------------------------------------------------------------- helpers
\* the threads' and timers' records at rest
\* the second host thread outside win32_alarm; seen: g_alarm_timer as the
\* test of line 202 read it
IdleOther == [pc |-> "idle", seen |-> NULL, seconds |-> 0]
IdleHost == [pc |-> "idle", up |-> FALSE, h |-> NULL, tmo |-> "zero"]
IdleCtrl == [pc |-> "idle", type |-> CTRL_C_EVENT, seen |-> SIG_DFL, stable |-> TRUE,
             inv |-> <<>>]
FreeWatcher == [pc |-> "free", h |-> NULL, seen |-> SIG_DFL, stable |-> TRUE,
                inv |-> <<>>]
\* runs: how often the callback has started; sup: a later win32_alarm call
\* found the timer pending; by: the timer that call created, if any
FreeTimer == [st |-> "free", ms |-> <<0, 0>>, pc |-> "-", seen |-> SIG_DFL, stable |-> TRUE,
              inv |-> <<>>, runs |-> 0, sup |-> FALSE, by |-> NULL]
\* the history of the external channel, kept where on is set: sent: signals
\* the helper delivered; waits: win32_wait_interrupt calls made; firstAt,
\* quiet: sent, and whether the watcher had handled all of them, at the
\* first of these calls; got: calls that returned interrupted
NoHist == [on |-> FALSE, sent |-> 0, waits |-> 0, firstAt |-> 0, quiet |-> FALSE,
           got |-> 0]
Track(h) == IF hist.on THEN h ELSE hist

\* a test that takes the ignore disposition for a callback
InstalledUnlessDefault(h) == h /= SIG_DFL

\* signals_win32.c:46, 78, 192, 269: the disposition is an installed callback
Installed(h) == h /= SIG_DFL /\ h /= SIG_IGN

\* a manual-reset event: a satisfied wait leaves it set
AfterWaitManualReset(st) == st

\* CreateEventW(NULL, FALSE, FALSE, NULL): bManualReset = FALSE, so a
\* satisfied wait resets the event
AfterWait(st) == "clear"

\* the smallest identifier of a set of free identifiers
Fresh(ids) == CHOOSE i \in ids : \A j \in ids : i <= j

FreeEvents == {i \in EventIds : events[i] = "free"}
FreeTimers == {i \in TimerIds : timers[i].st = "free"}
FreeThreads == {i \in ThreadIds : watcher[i].pc = "free"}

\* SetEvent(h) on an unnamed event handle: no effect on a closed handle
SetEvent(evs, h) ==
    IF h \in EventIds /\ evs[h] \in {"clear", "set"}
    THEN [evs EXCEPT ![h] = "set"] ELSE evs

\* CloseHandle(h) on an unnamed event handle
CloseEvent(evs, h) ==
    IF h \in EventIds THEN [evs EXCEPT ![h] = "closed"] ELSE evs

\* SetEvent(h) on a handle of the named event
SetExt(x, h) == IF h \in x.open THEN [x EXCEPT !.st = "set"] ELSE x

\* CloseHandle(h) on a handle of the named event: the object goes with its
\* last handle
CloseExt(x, h) ==
    IF x.open \ {h} = {}
    THEN [name |-> <<>>, st |-> "none", open |-> {}]
    ELSE [x EXCEPT !.open = x.open \ {h}]

\* decimal digits of n, as snprintf("%lu") writes them
Digit(d) == <<"0", "1", "2", "3", "4", "5", "6", "7", "8", "9">>[d + 1]
RECURSIVE Decimal(_)
Decimal(n) == IF n < 10 THEN <<Digit(n)>>
              ELSE Decimal(n \div 10) \o <<Digit(n % 10)>>

\* a name with another separator between the prefix and the identifier
EventNameDashed(p) == <<"CiaoInterrupt-">> \o Decimal(p)

\* signals_win32.c:104: "CiaoInterrupt_%lu" of the process identifier
EventName(p) == <<"CiaoInterrupt_">> \o Decimal(p)
\* signal_ciao.c:27: "CiaoInterrupt_%s" of argv[1]
HelperName(arg) == <<"CiaoInterrupt_">> \o arg
HelperArgs == {Decimal(p) : p \in Pids \cup {7}} \cup {<<"0">> \o Decimal(p) : p \in Pids}

\* a 32-bit unsigned number is held as <<high half, low half>>, each half
\* below Half
Half == 65536

\* signals_win32.c:209: DWORD ms = seconds * 1000, the product of unsigned
\* 32-bit arithmetic: what does not fit in 32 bits is dropped
Ms(seconds) ==
    LET low == (seconds % Half) * 1000
        high == (seconds \div Half) * 1000 + low \div Half
    IN  <<high % Half, low % Half>>

\* a delete that forgets the handle but leaves the timer in the queue
DeleteTimerLeavesPending(tm, t) == tm

\* DeleteTimerQueueTimer(NULL, t, INVALID_HANDLE_VALUE) once no callback of t
\* is running: a pending expiry is cancelled, the timer is gone
DeleteTimer(tm, t) ==
    IF t \in TimerIds
    THEN [tm EXCEPT ![t] = [FreeTimer EXCEPT !.st = "deleted", !.runs = tm[t].runs,
                                             !.sup = tm[t].sup, !.by = tm[t].by]]
    ELSE tm
\* the call blocks while the callback of t runs
DeleteBlocks(t) == t \in TimerIds /\ timers[t].st = "running"

\* a zero duration taken for a duration to arm
IsDisarmNever(seconds) == FALSE

\* signals_win32.c:207: a zero duration only cancels
IsDisarm(seconds) == seconds = 0

\* a swap that leaves the slot as it was
SwapKeepsSlot(slot, handler) == [prev |-> slot, new |-> slot]

\* a swap that returns the handler it stores
SwapReturnsNew(slot, handler) == [prev |-> handler, new |-> handler]

\* signals_win32.c:159-161, 167-169, 175-177: the slot takes the handler and
\* the call returns what the slot held
Swap(slot, handler) == [prev |-> slot, new |-> handler]

\* a test that leaves the event to the system unless a callback is installed
LeavesToSystemUnlessInstalled(v) == v \in {SIG_DFL, SIG_IGN}

\* signals_win32.c:48: the default disposition leaves the event to the system
LeavesToSystem(v) == v = SIG_DFL

\* signals_win32.c:224: the result when there is no interrupt event
NotInitializedReturn == -1

\* a result that tells the elapsed bound from the failure
WaitInterruptReturnThreeWay(result) ==
    IF result = WAIT_OBJECT_0 THEN 0 ELSE IF result = WAIT_TIMEOUT THEN 1 ELSE -1

\* signals_win32.c:226
WaitInterruptReturn(result) == IF result = WAIT_OBJECT_0 THEN 0 ELSE -1

\* a read of a registry slot that races with a write: the value read when
\* the disposition was tested, or the value the slot holds now
Reread(seen, now) == {seen, now}


\* ------------------------------------------------------ process records
\* exit codes a child may end with
ExitCodes == {0, 7}

\* kernel handles: six pipe ends, a process and a thread handle per spawn
HandlesPerSpawn == 8
HandleIds == 1..(HandlesPerSpawn * MaxSpawns)
\* C descriptors above stdin, stdout, stderr: three per spawn
FirstFd == 3
FdIds == FirstFd..(FirstFd + 3 * MaxSpawns - 1)

\* processes other than this one, as win32_kill may name them
OtherPids == {43}

\* process_win32.c:309: exit_code before the wait fills it
DefaultExit == 127
\* no child behind a handle; st: "none" | "running" | "exited"
NoChild == [st |-> "none", code |-> 0]

\* process_win32.c:136-139, 277-278: the all-sentinel record
NoInfo == [pid |-> 0, hProcess |-> NULL, hThread |-> NULL,
           stdin_fd |-> -1, stdout_fd |-> -1, stderr_fd |-> -1]

\* info: the caller's win32_process_info_t, written: it has been filled by
\* win32_create_process; handles: kernel handle -> "free" | "open" |
\* "closed"; closes: how often each was closed; fds: descriptor -> the
\* handle it wraps, NULL when free; next: the next handle the kernel gives
\* out; errno: "stale" before any call sets it; child: process handle ->
\* its state and exit code; badClose: a descriptor that was not
\* open was closed; local: the record on the stack of win32_execvp; steps:
\* what win32_execvp has done so far; exit: the code the process ended with;
\* others: the other processes, "running" | "terminated"
InitProc == [info |-> NoInfo, written |-> FALSE,
             badClose |-> FALSE,
             local |-> NoInfo,
             steps |-> <<>>,
             exit |-> DefaultExit,
             others |-> [t \in OtherPids |-> "running"],
             handles |-> [h \in HandleIds |-> "free"],
             closes |-> [h \in HandleIds |-> 0],
             fds |-> [f \in FdIds |-> NULL],
             next |-> 1,
             errno |-> "stale",
             child |-> [h \in HandleIds |-> NoChild]]

\* ---------------------------------------------------------------- Init
InitProgram ==
    /\ g_interrupt_event = NULL
    /\ g_alarm_event = NULL
    /\ g_alarm_timer = NULL
    /\ g_ext_interrupt_event = NULL
    /\ g_ext_interrupt_thread = NULL
    /\ g_ext_interrupt_shutdown = 0
    /\ current_mask = {}
    /\ g_sigint_handler = SIG_DFL
    /\ g_sigalrm_handler = SIG_DFL
    /\ g_sigusr1_handler = SIG_DFL
    /\ events = [i \in EventIds |-> "free"]
    /\ ext = [name |-> <<>>, st |-> "none", open |-> {}]
    /\ timers = [i \in TimerIds |-> FreeTimer]
    /\ ctrlInstalled = 0
    /\ crt = SIG_DFL
    /\ pid \in Pids
    /\ alive = "run"
    /\ host = IdleHost
    /\ ctrl = IdleCtrl
    /\ watcher = [i \in ThreadIds |-> FreeWatcher]
    /\ host2 = IdleOther
    /\ obs = [op |-> "-", inv |-> <<>>, ret |-> <<>>, info |-> <<>>, pre |-> "none"]
    /\ proc = InitProc
    /\ calls = 0
    /\ stimuli = 0

Init == InitProgram /\ hist = NoHist
\* the same, keeping the history of the external channel
InitHistory == InitProgram /\ hist = [NoHist EXCEPT !.on = TRUE]

\* the host thread is between two calls and may make another one
HostStep ==
    /\ alive /= "dead"
    /\ host.pc = "idle"
    /\ calls < MaxCalls
    /\ calls' = calls + 1
    /\ stimuli' = stimuli

\* a call into signals_win32.c: the process lifecycle state is not touched
HostCall == HostStep /\ proc' = proc

\* a step of a thread other than the host's
AsyncStep ==
    /\ alive /= "dead"
    /\ calls' = calls
    /\ stimuli' = stimuli

\* such a step inside signals_win32.c
Async == AsyncStep /\ proc' = proc

\* -------------------------------------------------------- win32_signal
\* signals_win32.c:154-182
win32_signal(sig, handler) ==
    /\ HostCall
    /\ g_sigint_handler' = IF sig = SIGINT THEN Swap(g_sigint_handler, handler).new
                           ELSE g_sigint_handler
    /\ g_sigalrm_handler' = IF sig = SIGALRM THEN Swap(g_sigalrm_handler, handler).new
                            ELSE g_sigalrm_handler
    /\ g_sigusr1_handler' = IF sig = SIGUSR1 THEN Swap(g_sigusr1_handler, handler).new
                            ELSE g_sigusr1_handler
    \* signals_win32.c:180: any other signal goes to the CRT
    /\ crt' = IF sig \in LogicalSignals THEN crt ELSE handler
    /\ obs' = Obs("signal", <<>>,
                  << CASE sig = SIGINT -> Swap(g_sigint_handler, handler).prev
                       [] sig = SIGALRM -> Swap(g_sigalrm_handler, handler).prev
                       [] sig = SIGUSR1 -> Swap(g_sigusr1_handler, handler).prev
                       [] OTHER -> crt >>,
                  [sig |-> sig, handler |-> handler])
    \* a callback in flight sees the slot change between its test and its call
    /\ ctrl' = IF sig = SIGINT /\ ctrl.pc /= "idle"
               THEN [ctrl EXCEPT !.stable = FALSE] ELSE ctrl
    /\ watcher' = [w \in ThreadIds |->
                     IF sig = SIGINT /\ watcher[w].pc = "call"
                     THEN [watcher[w] EXCEPT !.stable = FALSE] ELSE watcher[w]]
    /\ timers' = [t \in TimerIds |->
                     IF sig = SIGALRM /\ timers[t].pc = "call"
                     THEN [timers[t] EXCEPT !.stable = FALSE] ELSE timers[t]]
    /\ UNCHANGED <<statics, events, ext, ctrlInstalled, pid, alive, host, hist, host2>>

\* --------------------------------------------------------- win32_alarm
\* signals_win32.c:201-217
win32_alarm(seconds) ==
    /\ HostCall
    /\ ~DeleteBlocks(g_alarm_timer)
    /\ LET old == g_alarm_timer
           cancelled == IF old /= NULL THEN DeleteTimer(timers, old) ELSE timers
           t == Fresh(FreeTimers)
           \* the timer this call found pending, and the one that replaces it
           Mark(tm, new) == IF old /= NULL /\ timers[old].st = "pending"
                            THEN [tm EXCEPT ![old].sup = TRUE, ![old].by = new]
                            ELSE tm
       IN  \/ /\ IsDisarm(seconds)
              /\ timers' = Mark(cancelled, NULL)
              /\ g_alarm_timer' = NULL
           \/ /\ ~IsDisarm(seconds)
              \* CreateTimerQueueTimer succeeds
              /\ timers' = Mark([cancelled EXCEPT ![t] =
                               [FreeTimer EXCEPT !.st = "pending", !.ms = Ms(seconds)]], t)
              /\ g_alarm_timer' = t
           \/ /\ ~IsDisarm(seconds)
              \* CreateTimerQueueTimer fails
              /\ timers' = Mark(cancelled, NULL)
              /\ g_alarm_timer' = NULL
    /\ obs' = Obs("alarm", <<>>, <<0>>, [seconds |-> seconds, old |-> g_alarm_timer])
    /\ UNCHANGED <<g_interrupt_event, g_alarm_event, g_ext_interrupt_event,
                   g_ext_interrupt_thread, g_ext_interrupt_shutdown, registry,
                   events, ext, ctrlInstalled, crt, pid, alive, threads, hist,
                   current_mask>>

\* ------------------------------- win32_alarm on a second host thread
\* The same function, step by step, called from another thread of the host
\* while the first is in any call: no lock guards g_alarm_timer.
\* signals_win32.c:202: the test of g_alarm_timer
win32_alarm_test(seconds) ==
    /\ alive /= "dead"
    /\ calls < MaxCalls
    /\ calls' = calls + 1
    /\ host2.pc = "idle"
    /\ host2' = [pc |-> IF g_alarm_timer /= NULL THEN "delete"
                        ELSE IF IsDisarm(seconds) THEN "idle" ELSE "create",
                 seen |-> g_alarm_timer, seconds |-> seconds]
    /\ obs' = Obs(IF g_alarm_timer = NULL /\ IsDisarm(seconds)
                  THEN "alarm" ELSE "alarm_test",
                  <<>>,
                  IF g_alarm_timer = NULL /\ IsDisarm(seconds) THEN <<0>> ELSE <<>>,
                  [seconds |-> seconds, old |-> g_alarm_timer])
    /\ UNCHANGED <<statics, registry, kernel, host, ctrl, watcher, hist, proc,
                   stimuli>>

\* signals_win32.c:203-207: the timer named by g_alarm_timer, as tested or
\* as read again, is deleted and the reference cleared
win32_alarm_delete ==
    /\ AsyncStep
    /\ host2.pc = "delete"
    /\ \E t \in Reread(host2.seen, g_alarm_timer) :
          /\ ~DeleteBlocks(t)
          /\ timers' = IF t /= NULL /\ timers[t].st /= "deleted"
                       THEN DeleteTimer(timers, t) ELSE timers
    /\ g_alarm_timer' = NULL
    /\ host2' = [host2 EXCEPT !.pc = IF IsDisarm(host2.seconds)
                                     THEN "idle" ELSE "create"]
    /\ obs' = Obs(IF IsDisarm(host2.seconds) THEN "alarm" ELSE "alarm_delete",
                  <<>>, IF IsDisarm(host2.seconds) THEN <<0>> ELSE <<>>,
                  [seconds |-> host2.seconds, old |-> host2.seen])
    /\ UNCHANGED <<g_interrupt_event, g_alarm_event, g_ext_interrupt_event,
                   g_ext_interrupt_thread, g_ext_interrupt_shutdown, registry,
                   events, ext, ctrlInstalled, crt, pid, alive, host, ctrl,
                   watcher, hist, proc, current_mask>>

\* signals_win32.c:209-216: CreateTimerQueueTimer stores the new timer in
\* g_alarm_timer, or fails and stores nothing
win32_alarm_create(ok) ==
    /\ AsyncStep
    /\ host2.pc = "create"
    /\ LET t == Fresh(FreeTimers) IN
       IF ok
       THEN /\ timers' = [timers EXCEPT ![t] =
                            [FreeTimer EXCEPT !.st = "pending",
                                              !.ms = Ms(host2.seconds)]]
            /\ g_alarm_timer' = t
       ELSE UNCHANGED <<timers, g_alarm_timer>>
    /\ host2' = IdleOther
    /\ obs' = Obs("alarm", <<>>, <<0>>,
                  [seconds |-> host2.seconds, old |-> host2.seen])
    /\ UNCHANGED <<g_interrupt_event, g_alarm_event, g_ext_interrupt_event,
                   g_ext_interrupt_thread, g_ext_interrupt_shutdown, registry,
                   events, ext, ctrlInstalled, crt, pid, alive, host, ctrl,
                   watcher, hist, proc, current_mask>>

\* ------------------------------------------------ alarm_timer_callback
\* the timer expires: its callback starts on a timer-queue thread and tests
\* the disposition (signals_win32.c:192)
alarm_timer_callback_enter(t) ==
    /\ Async
    /\ timers[t].st = "pending"
    /\ timers' = [timers EXCEPT ![t].st = "running",
                                ![t].runs = timers[t].runs + 1,
                                ![t].seen = g_sigalrm_handler,
                                ![t].pc = IF Installed(g_sigalrm_handler)
                                          THEN "call" ELSE "event"]
    /\ obs' = Obs("alarm_cb_enter", <<>>, <<>>, t)
    /\ UNCHANGED <<statics, registry, events, ext, ctrlInstalled, crt, pid,
                   alive, threads, hist>>

\* signals_win32.c:193: g_sigalrm_handler(SIGALRM)
alarm_timer_callback_call(t) ==
    /\ Async
    /\ timers[t].st = "running" /\ timers[t].pc = "call"
    /\ \E v \in Reread(timers[t].seen, g_sigalrm_handler) :
          /\ timers' = [timers EXCEPT ![t].pc = "event", ![t].inv = <<v>>]
          /\ obs' = Obs("alarm_cb_call", <<v>>, <<>>, t)
    /\ UNCHANGED <<statics, registry, events, ext, ctrlInstalled, crt, pid,
                   alive, threads, hist>>

\* the callback setting the interrupt event
AlarmCallbackSetsInterrupt == g_interrupt_event

\* signals_win32.c:195-197: the event the callback sets
AlarmCallbackEvent == g_alarm_event

alarm_timer_callback_event(t) ==
    /\ Async
    /\ timers[t].st = "running" /\ timers[t].pc = "event"
    /\ events' = SetEvent(events, AlarmCallbackEvent)
    /\ timers' = [timers EXCEPT ![t].st = "done", ![t].pc = "-",
                                ![t].seen = SIG_DFL, ![t].stable = TRUE,
                                ![t].inv = <<>>]
    /\ obs' = Obs("alarm_cb_return", <<>>, <<>>, [t |-> t, cb |-> timers[t]])
    /\ UNCHANGED <<statics, registry, ext, ctrlInstalled, crt, pid, alive, threads,
                   hist>>

\* --------------------------------- win32_alarm called by the handler
\* The installed alarm callback calls win32_alarm while the timer callback
\* that invoked it (signals_win32.c:193) is running on the timer thread.
\* The call is entered: signals_win32.c:201
win32_alarm_in_handler(t) ==
    /\ alive /= "dead"
    /\ calls < MaxCalls
    /\ calls' = calls + 1
    /\ stimuli' = stimuli
    /\ proc' = proc
    /\ timers[t].st = "running" /\ timers[t].pc = "call"
    /\ timers' = [timers EXCEPT ![t].pc = "alarm"]
    /\ obs' = Obs("alarm_in_handler", <<>>, <<>>, [t |-> t, old |-> g_alarm_timer])
    /\ UNCHANGED <<statics, registry, events, ext, ctrlInstalled, crt, pid,
                   alive, threads, hist>>

\* signals_win32.c:202-216 on the timer thread: the delete waits until no
\* callback of the timer g_alarm_timer names is running, then the call goes
\* on as on the host thread and returns to the handler
win32_alarm_in_handler_return(t, seconds, ok) ==
    /\ Async
    /\ timers[t].st = "running" /\ timers[t].pc = "alarm"
    /\ ~DeleteBlocks(g_alarm_timer)
    /\ LET old == g_alarm_timer
           cancelled == IF old /= NULL THEN DeleteTimer(timers, old) ELSE timers
           n == Fresh(FreeTimers)
           back == [cancelled EXCEPT ![t].pc = "call"]
       IN  IF ~IsDisarm(seconds) /\ ok
           THEN /\ timers' = [back EXCEPT ![n] =
                                [FreeTimer EXCEPT !.st = "pending", !.ms = Ms(seconds)]]
                /\ g_alarm_timer' = n
           ELSE /\ timers' = back
                /\ g_alarm_timer' = NULL
    /\ obs' = Obs("alarm", <<>>, <<0>>, [seconds |-> seconds, old |-> g_alarm_timer])
    /\ UNCHANGED <<g_interrupt_event, g_alarm_event, g_ext_interrupt_event,
                   g_ext_interrupt_thread, g_ext_interrupt_shutdown, registry,
                   events, ext, ctrlInstalled, crt, pid, alive, threads, hist,
                   current_mask>>

\* ------------------------------------------------- win32_wait_interrupt
\* signals_win32.c:223-227. The wait is satisfied at once when the event is
\* set; a zero timeout never blocks.
win32_wait_interrupt(timeout_ms) ==
    /\ HostCall
    /\ LET h == g_interrupt_event
           \* the external channel is drained and no watcher is handling a signal
           quiet == /\ ext.st /= "set"
                    /\ \A w \in ThreadIds : watcher[w].pc \notin {"call", "event"}
           called == [hist EXCEPT !.waits = hist.waits + 1,
                        !.firstAt = IF hist.waits = 0 THEN hist.sent ELSE hist.firstAt,
                        !.quiet = IF hist.waits = 0 THEN quiet ELSE hist.quiet]
       IN
       IF h = NULL
       THEN /\ obs' = Obs("wait_interrupt", <<>>, <<NotInitializedReturn>>, "error")
            /\ hist' = Track(called)
            /\ UNCHANGED <<events, host, host2>>
       ELSE IF events[h] = "set"
       THEN /\ events' = [events EXCEPT ![h] = AfterWait(events[h])]
            /\ obs' = Obs("wait_interrupt", <<>>,
                          <<WaitInterruptReturn(WAIT_OBJECT_0)>>, "interrupted")
            /\ hist' = Track([called EXCEPT !.got = hist.got + 1])
            /\ UNCHANGED host
       ELSE IF timeout_ms = "zero"
       THEN /\ obs' = Obs("wait_interrupt", <<>>,
                          <<WaitInterruptReturn(WAIT_TIMEOUT)>>, "timed_out")
            /\ hist' = Track(called)
            /\ UNCHANGED <<events, host, host2>>
       ELSE /\ host' = [host EXCEPT !.pc = "wait", !.h = h, !.tmo = timeout_ms]
            /\ obs' = Obs("wait_interrupt_block", <<>>, <<>>, timeout_ms)
            /\ hist' = Track(called)
            /\ UNCHANGED events
    /\ UNCHANGED <<statics, registry, ext, timers, ctrlInstalled, crt, pid,
                   alive, ctrl, watcher, host2>>

\* the blocked WaitForSingleObject returns: the event was set, or the bound
\* elapsed with the event never set
win32_wait_interrupt_return ==
    /\ Async
    /\ host.pc = "wait"
    /\ \/ /\ events[host.h] = "set"
          /\ events' = [events EXCEPT ![host.h] = AfterWait(events[host.h])]
          /\ obs' = Obs("wait_interrupt", <<>>,
                        <<WaitInterruptReturn(WAIT_OBJECT_0)>>, "interrupted")
          /\ hist' = Track([hist EXCEPT !.got = hist.got + 1])
       \/ /\ events[host.h] = "clear"
          /\ host.tmo = "finite"
          /\ events' = events
          /\ obs' = Obs("wait_interrupt", <<>>,
                        <<WaitInterruptReturn(WAIT_TIMEOUT)>>, "timed_out")
          /\ hist' = hist
    /\ host' = [IdleHost EXCEPT !.up = host.up]
    /\ UNCHANGED <<statics, registry, ext, timers, ctrlInstalled, crt, pid,
                   alive, ctrl, watcher, host2>>

\* ----------------------------------------------------------- win32_kill
\* raise(sig) of the CRT for a signal it handles itself: an installed
\* callback is reset to the default and called, the default ends the process
win32_kill(p, sig) ==
    /\ HostCall
    /\ p = 0 \/ p = pid
    /\ IF sig = SIGINT
       THEN \* signals_win32.c:268-273
            /\ obs' = Obs("kill", IF Installed(g_sigint_handler)
                                  THEN <<g_sigint_handler>> ELSE <<>>,
                          <<0>>, [pid |-> p, sig |-> sig])
            /\ UNCHANGED <<crt, alive>>
       ELSE \* signals_win32.c:274
            /\ obs' = Obs("kill", IF Installed(crt) THEN <<crt>> ELSE <<>>,
                          <<0>>, [pid |-> p, sig |-> sig])
            /\ crt' = IF Installed(crt) THEN SIG_DFL ELSE crt
            /\ alive' = IF crt = SIG_DFL THEN "dead" ELSE alive
    /\ UNCHANGED <<statics, registry, events, ext, timers, ctrlInstalled, pid,
                   threads, hist>>

\* signals_win32.c:277-300, a process other than the caller. open: OpenProcess
\* gives a handle; term: TerminateProcess succeeds. The handle is closed
\* before every return.
KillOther(sig, open, term, errno) ==
    IF sig = 0
    THEN \* lines 277-285
         [ret |-> IF open THEN 0 ELSE -1, errno |-> errno, ends |-> FALSE]
    ELSE IF ~open
    THEN \* lines 287-291
         [ret |-> -1, errno |-> "ESRCH", ends |-> FALSE]
    ELSE IF ~term
    THEN \* lines 293-297
         [ret |-> -1, errno |-> "EPERM", ends |-> FALSE]
    ELSE \* lines 299-300
         [ret |-> 0, errno |-> errno, ends |-> TRUE]

win32_kill_other(t, sig, open, term) ==
    /\ HostStep
    /\ t /= 0 /\ t /= pid
    /\ LET r == KillOther(sig, open, term, proc.errno) IN
       /\ proc' = [proc EXCEPT !.errno = r.errno,
                               !.others[t] = IF r.ends THEN "terminated" ELSE @]
       /\ obs' = Obs("kill_other", <<>>, <<r.ret>>,
                     [pid |-> t, sig |-> sig, open |-> open, term |-> term,
                      before |-> proc])
    /\ UNCHANGED <<statics, registry, kernel, threads, hist>>

\* ---------------------------------------------------- win32_sigprocmask
\* signals_win32.c:234-236
SIG_BLOCK == 0
SIG_UNBLOCK == 1
SIG_SETMASK == 2
\* the signals whose bits the host puts in a mask
MaskSignals == {SIGINT, SIGALRM}

\* a switch whose SIG_UNBLOCK case stores the argument
ApplyMaskUnblockStores(how, mask, set) ==
    CASE how = SIG_BLOCK -> mask \cup set
      [] how \in {SIG_UNBLOCK, SIG_SETMASK} -> set
      [] OTHER -> mask

\* signals_win32.c:247-251: the mask as a set of signals
ApplyMask(how, mask, set) ==
    CASE how = SIG_BLOCK -> mask \cup set
      [] how = SIG_UNBLOCK -> mask \ set
      [] how = SIG_SETMASK -> set
      [] OTHER -> mask

\* signals_win32.c:241-255. hasSet, hasOld: the pointers set and oldset are
\* non-NULL; old: what *oldset holds after the call, "-" when not written
win32_sigprocmask(how, hasSet, set, hasOld) ==
    /\ HostCall
    /\ current_mask' = IF hasSet THEN ApplyMask(how, current_mask, set)
                       ELSE current_mask
    /\ obs' = Obs("sigprocmask", <<>>, <<0>>,
                  [how |-> how, hasSet |-> hasSet, set |-> set, hasOld |-> hasOld,
                   old |-> IF hasOld THEN current_mask ELSE {"-"},
                   before |-> current_mask])
    /\ UNCHANGED <<g_interrupt_event, g_alarm_event, g_alarm_timer,
                   g_ext_interrupt_event, g_ext_interrupt_thread,
                   g_ext_interrupt_shutdown, registry, kernel, threads, hist>>

\* --------------------------------------------------- win32_signals_init
\* signals_win32.c:91-115. okI, okA, okE: whether the interrupt event, the
\* alarm event and the named event could be created.
signals_init(okI, okA, okE) ==
    /\ HostCall
    \* identifiers are left for the objects this call creates
    /\ FreeThreads /= {}
    /\ Cardinality(FreeEvents) >= 2
    /\ LET e1 == Fresh(FreeEvents)
           e2 == Fresh(FreeEvents \ (IF okI THEN {e1} ELSE {}))
           g == Fresh(FreeThreads)
           evs == [i \in EventIds |->
                     IF (okI /\ i = e1) \/ (okA /\ i = e2) THEN "clear" ELSE events[i]]
       IN  /\ g_interrupt_event' = IF okI THEN e1 ELSE NULL
           /\ g_alarm_event' = IF okA THEN e2 ELSE NULL
           /\ events' = evs
           /\ IF ~(okI /\ okA)
              THEN \* signals_win32.c:95-97
                   /\ obs' = Obs("init", <<>>, <<-1>>, <<>>)
                   /\ UNCHANGED <<ctrlInstalled, ext, g_ext_interrupt_event,
                                  g_ext_interrupt_shutdown, g_ext_interrupt_thread,
                                  watcher, host, host2>>
              ELSE /\ ctrlInstalled' = ctrlInstalled + 1
                   /\ IF okE
                      THEN /\ ext' = [name |-> EventName(pid),
                                      st |-> IF ext.st = "none" THEN "clear" ELSE ext.st,
                                      open |-> ext.open \cup {g}]
                           /\ g_ext_interrupt_event' = g
                           /\ g_ext_interrupt_shutdown' = 0
                           /\ g_ext_interrupt_thread' = g
                           /\ watcher' = [watcher EXCEPT ![g].pc = "loop"]
                      ELSE /\ g_ext_interrupt_event' = NULL
                           /\ UNCHANGED <<ext, g_ext_interrupt_shutdown,
                                          g_ext_interrupt_thread, watcher>>
                   /\ host' = [host EXCEPT !.up = TRUE]
                   /\ obs' = Obs("init", <<>>, <<0>>, <<>>)
    /\ UNCHANGED <<g_alarm_timer, registry, timers, crt, pid, alive, ctrl, hist, host2,
                   current_mask>>

\* the host initializes a subsystem that is not up
win32_signals_init(okI, okA, okE) ==
    /\ ~host.up
    /\ signals_init(okI, okA, okE)

\* the host initializes again with no teardown in between: the function has
\* no test for this, the handles held are overwritten and stay open
win32_signals_init_again ==
    /\ host.up
    /\ signals_init(TRUE, TRUE, TRUE)

\* ------------------------------------------------ win32_signals_cleanup
\* signals_win32.c:128-131
CloseExtChannel ==
    /\ ext' = IF g_ext_interrupt_event /= NULL
              THEN CloseExt(ext, g_ext_interrupt_event) ELSE ext
    /\ g_ext_interrupt_event' = NULL

\* signals_win32.c:118-123, and 128-131 when there is no watcher to join
win32_signals_cleanup ==
    /\ HostCall
    /\ ctrlInstalled' = IF ctrlInstalled > 0 THEN ctrlInstalled - 1 ELSE 0
    /\ IF g_ext_interrupt_thread /= NULL
       THEN /\ g_ext_interrupt_shutdown' = 1
            /\ ext' = IF g_ext_interrupt_event /= NULL
                      THEN SetExt(ext, g_ext_interrupt_event) ELSE ext
            /\ host' = [host EXCEPT !.pc = "join", !.up = FALSE]
            /\ UNCHANGED g_ext_interrupt_event
       ELSE /\ CloseExtChannel
            /\ host' = [host EXCEPT !.pc = "teardown", !.up = FALSE]
            /\ UNCHANGED g_ext_interrupt_shutdown
    /\ obs' = Obs("cleanup_begin", <<>>, <<>>, <<>>)
    /\ UNCHANGED <<g_interrupt_event, g_alarm_event, g_alarm_timer,
                   g_ext_interrupt_thread, registry, events, timers, crt, pid,
                   alive, ctrl, watcher, hist, host2, current_mask>>

\* signals_win32.c:124-131: the join returns because the watcher has exited
\* or because the 2000 ms bound elapsed first
win32_signals_cleanup_join ==
    /\ Async
    /\ host.pc = "join"
    /\ obs' = Obs("cleanup_join", <<>>, <<>>,
                  IF watcher[g_ext_interrupt_thread].pc = "exit"
                  THEN WAIT_OBJECT_0 ELSE WAIT_TIMEOUT)
    /\ g_ext_interrupt_thread' = NULL
    /\ CloseExtChannel
    /\ host' = [host EXCEPT !.pc = "teardown"]
    /\ UNCHANGED <<g_interrupt_event, g_alarm_event, g_alarm_timer,
                   g_ext_interrupt_shutdown, registry, events, timers,
                   ctrlInstalled, crt, pid, alive, ctrl, watcher, hist,
                   host2, current_mask>>

\* signals_win32.c:133-144
win32_signals_cleanup_finish ==
    /\ Async
    /\ host.pc = "teardown"
    /\ ~DeleteBlocks(g_alarm_timer)
    /\ timers' = IF g_alarm_timer /= NULL
                 THEN DeleteTimer(timers, g_alarm_timer) ELSE timers
    /\ g_alarm_timer' = NULL
    /\ events' = CloseEvent(CloseEvent(events, g_interrupt_event), g_alarm_event)
    /\ g_interrupt_event' = NULL
    /\ g_alarm_event' = NULL
    /\ host' = [host EXCEPT !.pc = "idle"]
    /\ obs' = Obs("cleanup", <<>>, <<>>, <<>>)
    /\ UNCHANGED <<g_ext_interrupt_event, g_ext_interrupt_thread,
                   g_ext_interrupt_shutdown, registry, ext, ctrlInstalled, crt,
                   pid, alive, ctrl, watcher, hist, host2, current_mask>>

\* ------------------------------------------------ ext_interrupt_watcher
\* signals_win32.c:75: the loop test; 76: the wait is entered with the
\* handle g_ext_interrupt_event holds now
ext_interrupt_watcher_loop(w) ==
    /\ Async
    /\ watcher[w].pc = "loop"
    /\ watcher' = [watcher EXCEPT ![w] =
                     IF g_ext_interrupt_shutdown /= 0
                     THEN [FreeWatcher EXCEPT !.pc = "exit"]
                     ELSE [FreeWatcher EXCEPT !.pc = "wait", !.h = g_ext_interrupt_event]]
    /\ obs' = Obs("watcher_loop", <<>>, <<>>, w)
    /\ UNCHANGED <<statics, registry, kernel, host, ctrl, hist, host2>>

\* the watcher handling every return of its wait as a signal
SignalledAlways(r) == TRUE

\* signals_win32.c:77: the wait was satisfied by the event
Signalled(r) == r = WAIT_OBJECT_0

\* signals_win32.c:76-78: WaitForSingleObject(h, 500) returns. Signalled: the
\* auto-reset event is consumed and the disposition tested. Otherwise the
\* poll interval elapsed, or the handle is no longer valid.
ext_interrupt_watcher_wake(w) ==
    /\ Async
    /\ watcher[w].pc = "wait"
    /\ LET h == watcher[w].h
           r == IF h \notin ext.open THEN WAIT_FAILED
                ELSE IF ext.st = "set" THEN WAIT_OBJECT_0 ELSE WAIT_TIMEOUT
       IN  /\ ext' = IF r = WAIT_OBJECT_0 THEN [ext EXCEPT !.st = AfterWait(ext.st)]
                     ELSE ext
           /\ watcher' = IF Signalled(r)
                         THEN [watcher EXCEPT ![w].seen = g_sigint_handler,
                                  ![w].pc = IF Installed(g_sigint_handler)
                                            THEN "call" ELSE "event"]
                         ELSE [watcher EXCEPT ![w].pc = "loop"]
           /\ obs' = Obs("watcher_wake", <<>>, <<>>, r)
    /\ UNCHANGED <<statics, registry, events, timers, ctrlInstalled, crt, pid,
                   alive, host, ctrl, hist, host2>>

\* signals_win32.c:79: g_sigint_handler(SIGINT)
ext_interrupt_watcher_call(w) ==
    /\ Async
    /\ watcher[w].pc = "call"
    /\ \E v \in Reread(watcher[w].seen, g_sigint_handler) :
          /\ obs' = Obs("watcher_call", <<v>>, <<>>, w)
          /\ watcher' = [watcher EXCEPT ![w].pc = "event", ![w].inv = <<v>>]
    /\ UNCHANGED <<statics, registry, kernel, host, ctrl, hist, host2>>

\* signals_win32.c:81
ext_interrupt_watcher_event(w) ==
    /\ Async
    /\ watcher[w].pc = "event"
    /\ events' = SetEvent(events, g_interrupt_event)
    /\ watcher' = [watcher EXCEPT ![w] = [FreeWatcher EXCEPT !.pc = "loop"]]
    /\ obs' = Obs("watcher_event", <<>>, <<>>, watcher[w])
    /\ UNCHANGED <<statics, registry, ext, timers, ctrlInstalled, crt, pid,
                   alive, host, ctrl, hist, host2>>

\* ----------------------------------------------------- signal_ciao main
\* signal_ciao.c:18-37: the helper process, started with argc arguments
signal_ciao_main(argc, arg) ==
    /\ alive /= "dead"
    /\ stimuli < MaxEvents
    /\ stimuli' = stimuli + 1
    /\ calls' = calls
    /\ IF argc /= 2
       THEN /\ obs' = Obs("signal_ciao", <<>>, <<1>>, [argc |-> argc, arg |-> arg])
            /\ UNCHANGED <<ext, hist>>
       ELSE IF ext.st /= "none" /\ ext.name = HelperName(arg)
       THEN /\ obs' = Obs("signal_ciao", <<>>, <<0>>, [argc |-> argc, arg |-> arg])
            /\ ext' = [ext EXCEPT !.st = "set"]
            /\ hist' = Track([hist EXCEPT !.sent = hist.sent + 1])
       ELSE /\ obs' = Obs("signal_ciao", <<>>, <<2>>, [argc |-> argc, arg |-> arg])
            /\ UNCHANGED <<ext, hist>>
    /\ UNCHANGED <<statics, registry, events, timers, ctrlInstalled, crt, pid,
                   alive, threads, proc>>

\* --------------------------------------------------- win32_ctrl_handler
\* the first case of the switch taking the window close as well
IsInterruptBreakOrClose(dwCtrlType) ==
    dwCtrlType \in {CTRL_C_EVENT, CTRL_BREAK_EVENT, CTRL_CLOSE_EVENT}

\* signals_win32.c:44-45
IsInterruptOrBreak(dwCtrlType) == dwCtrlType \in {CTRL_C_EVENT, CTRL_BREAK_EVENT}

\* the console delivers an event: win32_ctrl_handler starts on a thread of
\* its own and, for an interrupt or break, tests the disposition
\* (signals_win32.c:43-46)
win32_ctrl_handler_enter(dwCtrlType) ==
    /\ alive = "run"
    /\ ctrlInstalled > 0
    /\ ctrl.pc = "idle"
    /\ stimuli < MaxEvents
    /\ stimuli' = stimuli + 1
    /\ calls' = calls
    /\ ctrl' = [IdleCtrl EXCEPT
                  !.type = dwCtrlType,
                  !.seen = g_sigint_handler,
                  !.pc = IF IsInterruptOrBreak(dwCtrlType)
                         THEN IF Installed(g_sigint_handler) THEN "call" ELSE "elif"
                         ELSE "close"]
    /\ obs' = Obs("ctrl_enter", <<>>, <<>>, dwCtrlType)
    /\ UNCHANGED <<statics, registry, kernel, host, watcher, hist, proc, host2>>

\* signals_win32.c:47: g_sigint_handler(SIGINT)
win32_ctrl_handler_call ==
    /\ Async
    /\ ctrl.pc = "call"
    /\ \E v \in Reread(ctrl.seen, g_sigint_handler) :
          /\ ctrl' = [ctrl EXCEPT !.pc = "event", !.inv = <<v>>]
          /\ obs' = Obs("ctrl_call", <<v>>, <<>>, <<>>)
    /\ UNCHANGED <<statics, registry, kernel, host, watcher, hist, host2>>

\* signals_win32.c:48-49: the default disposition leaves the event to the
\* next handler, which ends the process
win32_ctrl_handler_elif ==
    /\ Async
    /\ ctrl.pc = "elif"
    /\ \E v \in Reread(ctrl.seen, g_sigint_handler) :
          IF LeavesToSystem(v)
          THEN /\ obs' = Obs("ctrl_return", <<>>, <<FALSE>>, ctrl)
               /\ ctrl' = IdleCtrl
               /\ alive' = "dying"
          ELSE /\ obs' = Obs("ctrl_elif", <<>>, <<>>, <<>>)
               /\ ctrl' = [ctrl EXCEPT !.pc = "event"]
               /\ alive' = alive
    /\ UNCHANGED <<statics, registry, events, ext, timers, ctrlInstalled, crt,
                   pid, host, watcher, hist, host2>>

\* signals_win32.c:51-52
win32_ctrl_handler_event ==
    /\ Async
    /\ ctrl.pc = "event"
    /\ events' = SetEvent(events, g_interrupt_event)
    /\ obs' = Obs("ctrl_return", <<>>, <<TRUE>>, ctrl)
    /\ ctrl' = IdleCtrl
    /\ UNCHANGED <<statics, registry, ext, timers, ctrlInstalled, crt, pid,
                   alive, host, watcher, hist, host2>>

\* signals_win32.c:54-58: close, logoff, shutdown; the system then ends the
\* process
win32_ctrl_handler_close ==
    /\ Async
    /\ ctrl.pc = "close"
    /\ events' = SetEvent(events, g_interrupt_event)
    /\ obs' = Obs("ctrl_return", <<>>, <<FALSE>>, ctrl)
    /\ ctrl' = IdleCtrl
    /\ alive' = "dying"
    /\ UNCHANGED <<statics, registry, ext, timers, ctrlInstalled, crt, pid,
                   host, watcher, hist, host2>>

\* the system ends a process whose console event was left unhandled
ProcessEnds ==
    /\ alive = "dying"
    /\ alive' = "dead"
    /\ obs' = Obs("process_ends", <<>>, <<>>, <<>>)
    /\ UNCHANGED <<statics, registry, events, ext, timers, ctrlInstalled, crt,
                   pid, threads, hist, proc, calls, stimuli>>

\* ------------------------------------------------- win32_create_process
\* the step of win32_create_process that fails: the creation of one of the
\* pipes, the allocation of the command line, CreateProcessW with one of
\* the errors the code tells apart, or none
PipeFailures == {"stdin_pipe", "stdout_pipe", "stderr_pipe"}
CreateFailures == {"ERROR_FILE_NOT_FOUND", "ERROR_PATH_NOT_FOUND",
                   "ERROR_ACCESS_DENIED", "ERROR_OTHER"}
SpawnFailures == PipeFailures \cup {"cmdline"} \cup CreateFailures

\* process_win32.c:141-179: the steps in the order the code takes them
StepOf(fail) == CASE fail = "stdin_pipe" -> 1
                  [] fail = "stdout_pipe" -> 2
                  [] fail = "stderr_pipe" -> 3
                  [] fail = "cmdline" -> 4
                  [] fail \in CreateFailures -> 5
                  [] OTHER -> 6

\* process_win32.c:126-128: the six pipe ends, by the name of their variable
PipeEnds == <<"hStdinRead", "hStdinWrite", "hStdoutRead", "hStdoutWrite",
              "hStderrRead", "hStderrWrite">>

\* a success path that closes the child's output ends only
ChildEndsOutputOnly == {"hStdoutWrite", "hStderrWrite"}

\* process_win32.c:212-214: the ends that belong to the child
ChildEnds == {"hStdinRead", "hStdoutWrite", "hStderrWrite"}

\* CloseHandle on each handle of hs
CloseAll(pr, hs) ==
    [pr EXCEPT !.handles = [h \in HandleIds |-> IF h \in hs THEN "closed" ELSE @[h]],
               !.closes = [h \in HandleIds |-> IF h \in hs /\ @[h] < 2
                                               THEN @[h] + 1 ELSE @[h]]]

\* process_win32.c:234-239: the error path closes every handle that is set;
\* made: the pipe ends created so far, as <<variable, handle>>
ErrorPathClosesChildEnds(made) == {e[2] : e \in {x \in made : x[1] \in ChildEnds}}
ErrorPathCloses(made) == {e[2] : e \in made}

\* process_win32.c:168-170, 195-207: errno as the failing step leaves it;
\* create_inheritable_pipe and its caller set none
SpawnErrno(fail, errno) ==
    CASE fail \in PipeFailures -> errno
      [] fail = "cmdline" -> "ENOMEM"
      [] fail \in {"ERROR_FILE_NOT_FOUND", "ERROR_PATH_NOT_FOUND"} -> "ENOENT"
      [] fail = "ERROR_ACCESS_DENIED" -> "EACCES"
      [] OTHER -> "ECHILD"

\* _open_osfhandle: the lowest free descriptor
FreeFds(fds) == {f \in FdIds : fds[f] = NULL}

\* process_win32.c:217-225: the descriptor of a stream: one wrapping the
\* parent's end when the stream is redirected
StreamFdUnlessRedirected(flag, fd) == IF flag THEN -1 ELSE fd
StreamFd(flag, fd) == IF flag THEN fd ELSE -1

\* the pipe ends created before the step that fails, as <<variable, handle>>,
\* the handles taken from n on (process_win32.c:141-156)
Made(n, rin, rout, rerr, fail) ==
    LET wanted == [i \in 1..6 |-> CASE i \in {1, 2} -> rin /\ StepOf(fail) > 1
                                    [] i \in {3, 4} -> rout /\ StepOf(fail) > 2
                                    [] OTHER -> rerr /\ StepOf(fail) > 3]
    IN  {<<PipeEnds[i], n + i - 1>> : i \in {j \in 1..6 : wanted[j]}}

HandleOf(made, end) == (CHOOSE e \in made : e[1] = end)[2]

\* process_win32.c:114-242: the lifecycle state after the call, pr.info
\* being the record the caller passed. rin, rout, rerr: the redirect flags;
\* fail: the step that fails.
CreateProcess(pr, rin, rout, rerr, fail) ==
    LET n == pr.next
        made == Made(n, rin, rout, rerr, fail)
        hProcess == n + 6
        hThread == n + 7
        \* lines 133-139 and the pipes created
        p0 == [pr EXCEPT
                 !.info = NoInfo, !.written = TRUE,
                 !.next = n + HandlesPerSpawn,
                 !.handles = [h \in HandleIds |->
                                IF h \in {e[2] : e \in made} THEN "open" ELSE @[h]]]
        f1 == Fresh(FreeFds(pr.fds))
        f2 == Fresh(FreeFds(pr.fds) \ (IF rin THEN {f1} ELSE {}))
        f3 == Fresh(FreeFds(pr.fds) \ ((IF rin THEN {f1} ELSE {}) \cup
                                       (IF rout THEN {f2} ELSE {})))
    IN
    IF fail \in SpawnFailures
    THEN \* lines 233-241
         [CloseAll(p0, ErrorPathCloses(made)) EXCEPT
            !.errno = SpawnErrno(fail, pr.errno)]
    ELSE \* lines 211-231
         [CloseAll(p0, {e[2] : e \in {x \in made : x[1] \in ChildEnds}}) EXCEPT
            !.handles[hProcess] = "open", !.handles[hThread] = "open",
            !.child[hProcess] = [st |-> "running", code |-> 0],
            !.fds = [f \in FdIds |->
                       CASE rin /\ f = f1 -> HandleOf(made, "hStdinWrite")
                         [] rout /\ f = f2 -> HandleOf(made, "hStdoutRead")
                         [] rerr /\ f = f3 -> HandleOf(made, "hStderrRead")
                         [] OTHER -> @[f]],
            !.info = [pid |-> hProcess, hProcess |-> hProcess,
                      hThread |-> hThread,
                      stdin_fd |-> StreamFd(rin, f1),
                      stdout_fd |-> StreamFd(rout, f2),
                      stderr_fd |-> StreamFd(rerr, f3)]]

\* the failing step fits the request: a pipe fails only if it is asked for;
\* crash: the second free of the command line (lines 192 and 240, after a
\* failed CreateProcessW) ends the process instead of returning
FitsRequest(rin, rout, rerr, fail, crash) ==
    /\ fail = "stdin_pipe" => rin
    /\ fail = "stdout_pipe" => rout
    /\ fail = "stderr_pipe" => rerr
    /\ crash => fail \in CreateFailures

\* the run may spawn another child
CanSpawn == proc.next + HandlesPerSpawn - 1 <= HandlesPerSpawn * MaxSpawns

\* a call of win32_create_process on the caller's record
\* process_win32.c:167-168: build_command_line returned a buffer
CmdlineBuilt(fail) == fail \notin PipeFailures \cup {"cmdline"}

\* how often the buffer is passed to free: at line 192 once CreateProcessW
\* has returned, and at line 240 on the error path (free(NULL) frees nothing)
CmdlineFrees(fail) ==
    (IF CmdlineBuilt(fail) THEN 1 ELSE 0)
    + (IF CmdlineBuilt(fail) /\ fail \in SpawnFailures THEN 1 ELSE 0)

win32_create_process(rin, rout, rerr, fail, crash) ==
    /\ HostStep
    /\ CanSpawn
    /\ FitsRequest(rin, rout, rerr, fail, crash)
    /\ proc' = CreateProcess(proc, rin, rout, rerr, fail)
    /\ alive' = IF crash THEN "dead" ELSE alive
    /\ obs' = Obs(IF crash THEN "create_process_crash" ELSE "create_process",
                  <<>>,
                  IF crash THEN <<>> ELSE IF fail \in SpawnFailures THEN <<-1>> ELSE <<0>>,
                  [rin |-> rin, rout |-> rout, rerr |-> rerr, fail |-> fail,
                   made |-> Made(proc.next, rin, rout, rerr, fail),
                   frees |-> CmdlineFrees(fail)])
    /\ UNCHANGED <<statics, registry, events, ext, timers, ctrlInstalled, crt, pid,
                   threads, hist>>

\* ---------------------------------------------------- win32_wait_process
\* process_win32.c:252-263
\* a failed wait reported as a child that is still running
WaitProcessReturnRunningUnlessExited(result) ==
    IF result = WAIT_OBJECT_0 THEN 0 ELSE 1

WaitProcessReturnZeroUnlessFailed(result) == IF result = WAIT_FAILED THEN -1 ELSE 0
WaitProcessReturn(result) ==
    CASE result = WAIT_OBJECT_0 -> 0
      [] result = WAIT_TIMEOUT -> 1
      [] OTHER -> -1

\* the child behind a process handle has exited
Exited(pr, h) == pr.child[h].st = "exited"

\* process_win32.c:249-264 on the caller's record. The wait fails on a
\* handle that is not open, is satisfied at once when the child has exited,
\* and does not block with a zero bound.
win32_wait_process(timeout_ms) ==
    /\ HostStep
    /\ proc.written
    /\ LET h == proc.info.hProcess IN
       IF h = NULL \/ proc.handles[h] /= "open"
       THEN /\ obs' = Obs("wait_process", <<>>, <<WaitProcessReturn(WAIT_FAILED)>>,
                          "error")
            /\ proc' = [proc EXCEPT !.errno = "ECHILD"]
            /\ host' = host
       ELSE IF Exited(proc, h)
       THEN /\ obs' = Obs("wait_process", <<>>,
                          <<WaitProcessReturn(WAIT_OBJECT_0), proc.child[h].code>>, "exited")
            /\ UNCHANGED <<proc, host, host2>>
       ELSE IF timeout_ms = "zero"
       THEN /\ obs' = Obs("wait_process", <<>>, <<WaitProcessReturn(WAIT_TIMEOUT)>>,
                          "still_running")
            /\ proc' = [proc EXCEPT !.errno = "EAGAIN"]
            /\ host' = host
       ELSE /\ obs' = Obs("wait_process_block", <<>>, <<>>, timeout_ms)
            /\ host' = [host EXCEPT !.pc = "wait_process", !.h = h, !.tmo = timeout_ms]
            /\ proc' = proc
    /\ UNCHANGED <<statics, registry, kernel, ctrl, watcher, hist, host2>>

\* the blocked wait returns: the child has exited, or the bound elapsed first
win32_wait_process_return ==
    /\ AsyncStep
    /\ host.pc = "wait_process"
    /\ \/ /\ Exited(proc, host.h)
          /\ obs' = Obs("wait_process", <<>>,
                        <<WaitProcessReturn(WAIT_OBJECT_0), proc.child[host.h].code>>,
                        "exited")
          /\ proc' = proc
       \/ /\ ~Exited(proc, host.h)
          /\ host.tmo = "finite"
          /\ obs' = Obs("wait_process", <<>>, <<WaitProcessReturn(WAIT_TIMEOUT)>>,
                        "still_running")
          /\ proc' = [proc EXCEPT !.errno = "EAGAIN"]
    /\ host' = [IdleHost EXCEPT !.up = host.up]
    /\ UNCHANGED <<statics, registry, kernel, ctrl, watcher, hist, host2>>

\* a child process ends with an exit code
child_exits(h, code) ==
    /\ AsyncStep
    /\ proc.child[h].st = "running"
    /\ proc' = [proc EXCEPT !.child[h] = [st |-> "exited", code |-> code]]
    /\ obs' = Obs("child_exits", <<>>, <<>>, [h |-> h, code |-> code])
    /\ UNCHANGED <<statics, registry, kernel, threads, hist>>

\* --------------------------------------------------- win32_close_process
\* _close on the descriptors the record holds (process_win32.c:272-274):
\* the descriptor is freed and the handle it wraps is closed
CloseFds(pr, fdset) ==
    LET open == {f \in fdset : pr.fds[f] /= NULL}
    IN  [CloseAll(pr, {pr.fds[f] : f \in open}) EXCEPT
           !.fds = [f \in FdIds |-> IF f \in open THEN NULL ELSE @[f]],
           !.badClose = @ \/ open /= fdset]

\* process_win32.c:277-278
ResetKeepsRecord(info) == info
ResetRecord(info) == NoInfo

\* process_win32.c:271-279 on the record info held in pr: the lifecycle
\* state and the record afterwards
CloseProcess(pr, info) ==
    LET fdset == {f \in {info.stdin_fd, info.stdout_fd, info.stderr_fd} : f >= 0}
        hs == {h \in {info.hProcess, info.hThread} : h /= NULL}
    IN  [st |-> CloseAll(CloseFds(pr, fdset), hs), info |-> ResetRecord(info)]

\* what a close of the record would close
Held(info) ==
    [fds |-> {f \in {info.stdin_fd, info.stdout_fd, info.stderr_fd} : f >= 0},
     handles |-> {h \in {info.hProcess, info.hThread} : h /= NULL}]

win32_close_process ==
    /\ HostStep
    /\ proc.written
    /\ LET r == CloseProcess(proc, proc.info) IN
         proc' = [r.st EXCEPT !.info = r.info]
    /\ obs' = Obs("close_process", <<>>, <<>>,
                  [held |-> Held(proc.info),
                   wrapped |-> {proc.fds[f] : f \in Held(proc.info).fds},
                   closes |-> proc.closes])
    /\ UNCHANGED <<statics, registry, kernel, threads, hist>>

\* --------------------------------------------------------- win32_execvp
\* process_win32.c:311-315: the spawn with no stream redirected on a record
\* of its own; when it succeeds the call blocks in the wait with no bound
win32_execvp(fail, crash) ==
    /\ HostStep
    /\ CanSpawn
    /\ FitsRequest(FALSE, FALSE, FALSE, fail, crash)
    /\ LET r == CreateProcess(proc, FALSE, FALSE, FALSE, fail) IN
       /\ proc' = [r EXCEPT !.info = proc.info, !.written = proc.written,
                            !.local = r.info,
                            !.steps = IF fail \in SpawnFailures THEN <<>>
                                      ELSE <<"spawn">>]
       /\ host' = IF fail \in SpawnFailures THEN host
                  ELSE [host EXCEPT !.pc = "exec_wait", !.h = r.info.hProcess,
                                    !.tmo = "INFINITE"]
    /\ alive' = IF crash THEN "dead" ELSE alive
    /\ obs' = Obs(IF crash THEN "execvp_crash"
                  ELSE IF fail \in SpawnFailures THEN "execvp" ELSE "execvp_spawned",
                  <<>>,
                  IF ~crash /\ fail \in SpawnFailures THEN <<-1>> ELSE <<>>,
                  [fail |-> fail])
    /\ UNCHANGED <<statics, registry, events, ext, timers, ctrlInstalled, crt, pid,
                   ctrl, watcher, hist, host2>>

\* process_win32.c:315: the wait returns once the child has exited
win32_execvp_wait ==
    /\ AsyncStep
    /\ host.pc = "exec_wait"
    /\ Exited(proc, host.h)
    /\ host' = [host EXCEPT !.pc = "exec_close"]
    /\ proc' = [proc EXCEPT !.steps = Append(@, "wait"),
                            !.exit = proc.child[host.h].code]
    /\ obs' = Obs("execvp_wait", <<>>, <<>>, [code |-> proc.child[host.h].code])
    /\ UNCHANGED <<statics, registry, kernel, ctrl, watcher, hist, host2>>

\* process_win32.c:316
win32_execvp_close ==
    /\ AsyncStep
    /\ host.pc = "exec_close"
    /\ host' = [host EXCEPT !.pc = "exec_exit"]
    /\ LET r == CloseProcess(proc, proc.local) IN
         proc' = [r.st EXCEPT !.local = r.info, !.steps = Append(@, "close")]
    /\ obs' = Obs("execvp_close", <<>>, <<>>, <<>>)
    /\ UNCHANGED <<statics, registry, kernel, ctrl, watcher, hist, host2>>

\* process_win32.c:318: exit(exit_code) ends the calling process
win32_execvp_exit ==
    /\ host.pc = "exec_exit"
    /\ alive /= "dead"
    /\ alive' = "dead"
    /\ proc' = [proc EXCEPT !.steps = Append(@, "exit")]
    /\ obs' = Obs("execvp_exit", <<>>, <<>>,
                  [code |-> proc.exit, child |-> proc.child[host.h].code])
    /\ UNCHANGED <<statics, registry, events, ext, timers, ctrlInstalled, crt, pid,
                   threads, hist, calls, stimuli>>

\* ------------------------------------------------------- win32_fork_stub
\* process_win32.c:289
ForkErrnoAgain == "EAGAIN"
ForkErrno == "ENOSYS"
\* process_win32.c:286-291
win32_fork_stub ==
    /\ HostStep
    /\ proc' = [proc EXCEPT !.errno = ForkErrno]
    /\ obs' = Obs("fork", <<>>, <<-1>>, [before |-> proc])
    /\ UNCHANGED <<statics, registry, kernel, threads, hist>>

\* ------------------------------------------------------- specifications
\* the blocked host calls returning
HostReturns ==
    \/ win32_wait_interrupt_return
    \/ win32_signals_cleanup_join
    \/ win32_signals_cleanup_finish

\* the watcher threads
Watchers ==
    \/ \E w \in ThreadIds : ext_interrupt_watcher_loop(w)
    \/ \E w \in ThreadIds : ext_interrupt_watcher_wake(w)
    \/ \E w \in ThreadIds : ext_interrupt_watcher_call(w)
    \/ \E w \in ThreadIds : ext_interrupt_watcher_event(w)

\* the console-control callback running to its return, and the system ending
\* the process after it
ConsoleReturns ==
    \/ win32_ctrl_handler_call
    \/ win32_ctrl_handler_elif
    \/ win32_ctrl_handler_event
    \/ win32_ctrl_handler_close
    \/ ProcessEnds

\* The alarm: the host initializes, registers alarm dispositions, arms and
\* disarms, waits for an interrupt and tears down, while timers expire and
\* the watcher polls.
NextAlarm ==
    \/ win32_signals_init(TRUE, TRUE, TRUE)
    \/ win32_signals_cleanup
    \/ \E h \in Handlers : win32_signal(SIGALRM, h)
    \/ \E d \in Durations : win32_alarm(d)
    \/ \E tmo \in Timeouts : win32_wait_interrupt(tmo)
    \/ \E t \in TimerIds : alarm_timer_callback_enter(t)
    \/ \E t \in TimerIds : alarm_timer_callback_call(t)
    \/ \E t \in TimerIds : alarm_timer_callback_event(t)
    \/ \E w \in ThreadIds : ext_interrupt_watcher_loop(w)
    \/ \E w \in ThreadIds : ext_interrupt_watcher_wake(w)
    \/ \E w \in ThreadIds : ext_interrupt_watcher_event(w)
    \/ HostReturns

SpecAlarm == Init /\ [][NextAlarm]_vars

\* The registry: the host registers any disposition for any signal while an
\* alarm is armed and interrupts arrive from the console.
NextRegistry ==
    \/ win32_signals_init(TRUE, TRUE, TRUE)
    \/ \E sig \in LogicalSignals \cup {SIGTERM}, h \in Handlers : win32_signal(sig, h)
    \/ win32_alarm(1)
    \/ \E t \in TimerIds : alarm_timer_callback_enter(t)
    \/ \E t \in TimerIds : alarm_timer_callback_call(t)
    \/ \E t \in TimerIds : alarm_timer_callback_event(t)
    \/ \E type \in {CTRL_C_EVENT, CTRL_CLOSE_EVENT} : win32_ctrl_handler_enter(type)
    \/ ConsoleReturns

SpecRegistry == Init /\ [][NextRegistry]_vars

\* The console: console events against the interrupt disposition, kill on
\* the process itself, and the host waiting for the interrupt indicator.
NextConsole ==
    \/ win32_signals_init(TRUE, TRUE, TRUE)
    \/ win32_signals_cleanup
    \/ \E h \in Handlers : win32_signal(SIGINT, h)
    \/ \E p \in {0} \cup Pids : win32_kill(p, SIGINT)
    \/ \E tmo \in Timeouts : win32_wait_interrupt(tmo)
    \/ \E type \in CtrlTypes : win32_ctrl_handler_enter(type)
    \/ ConsoleReturns
    \/ HostReturns

SpecConsole == Init /\ [][NextConsole]_vars

\* Interrupt delivery: console events, the helper and the watcher set the
\* interrupt indicator, the host waits for it and tears down.
NextInterrupt ==
    \/ win32_signals_init(TRUE, TRUE, TRUE)
    \/ win32_signals_cleanup
    \/ \E h \in {SIG_IGN, "h1"} : win32_signal(SIGINT, h)
    \/ \E tmo \in Timeouts : win32_wait_interrupt(tmo)
    \/ signal_ciao_main(2, Decimal(pid))
    \/ Watchers
    \/ \E type \in {CTRL_C_EVENT, CTRL_CLOSE_EVENT} : win32_ctrl_handler_enter(type)
    \/ ConsoleReturns
    \/ HostReturns

SpecInterrupt == Init /\ [][NextInterrupt]_vars

\* The external channel: the helper, started with any argument, and the
\* watcher of an initialized subsystem.
NextExternal ==
    \/ win32_signals_init(TRUE, TRUE, TRUE)
    \/ \E h \in Handlers : win32_signal(SIGINT, h)
    \/ \E tmo \in Timeouts : win32_wait_interrupt(tmo)
    \/ signal_ciao_main(1, <<>>)
    \/ \E arg \in HelperArgs : signal_ciao_main(2, arg)
    \/ Watchers
    \/ win32_wait_interrupt_return

SpecExternal == InitHistory /\ [][NextExternal]_vars

\* The external channel over the life of the subsystem, teardown included;
\* the scheduler lets every watcher thread that can take a step take one.
WatcherThread(w) ==
    \/ ext_interrupt_watcher_loop(w)
    \/ ext_interrupt_watcher_wake(w)
    \/ ext_interrupt_watcher_call(w)
    \/ ext_interrupt_watcher_event(w)

NextChannel ==
    \/ win32_signals_init(TRUE, TRUE, TRUE)
    \/ win32_signals_cleanup
    \/ \E h \in {SIG_IGN, "h1"} : win32_signal(SIGINT, h)
    \/ signal_ciao_main(1, <<>>)
    \/ \E arg \in HelperArgs : signal_ciao_main(2, arg)
    \/ \E w \in ThreadIds : WatcherThread(w)
    \/ win32_signals_cleanup_join
    \/ win32_signals_cleanup_finish

SpecChannelFair ==
    /\ Init
    /\ [][NextChannel]_vars
    /\ \A w \in ThreadIds : WF_vars(WatcherThread(w))

\* the same, and a teardown that has begun goes on: the bounded join returns
\* and the rest of win32_signals_cleanup runs
SpecTeardownFair ==
    /\ SpecChannelFair
    /\ WF_vars(win32_signals_cleanup_join)
    /\ WF_vars(win32_signals_cleanup_finish)

\* The alarm armed again from inside its handler, with a second host thread
\* arming at the same time.
NextAlarmHandler ==
    \/ win32_signal(SIGALRM, "h1")
    \/ \E d \in {0, 1} : win32_alarm(d)
    \/ win32_alarm_test(1)
    \/ win32_alarm_delete
    \/ win32_alarm_create(TRUE)
    \/ \E t \in TimerIds : alarm_timer_callback_enter(t)
    \/ \E t \in TimerIds : alarm_timer_callback_call(t)
    \/ \E t \in TimerIds : alarm_timer_callback_event(t)
    \/ \E t \in TimerIds : win32_alarm_in_handler(t)
    \/ \E t \in TimerIds, d \in {0, 1}, ok \in BOOLEAN :
         win32_alarm_in_handler_return(t, d, ok)

\* the timer threads go on: a callback that can take a step takes it, and a
\* win32_alarm call whose delete no longer waits returns
SpecAlarmHandlerFair ==
    /\ Init
    /\ [][NextAlarmHandler]_vars
    /\ \A t \in TimerIds :
          /\ WF_vars(alarm_timer_callback_call(t))
          /\ WF_vars(alarm_timer_callback_event(t))
          /\ WF_vars(\E d \in {0, 1}, ok \in BOOLEAN :
                        win32_alarm_in_handler_return(t, d, ok))

\* Registrations against every kind of delivery: console events, requests
\* of the helper, alarm expirations and kill on the process itself.
NextVisible ==
    \/ win32_signals_init(TRUE, TRUE, TRUE)
    \/ \E h \in {SIG_IGN, "h1", "h2"} : win32_signal(SIGINT, h)
    \/ \E h \in {SIG_IGN, "h1"} : win32_signal(SIGALRM, h)
    \/ win32_alarm(1)
    \/ win32_kill(0, SIGINT)
    \/ signal_ciao_main(2, Decimal(pid))
    \/ win32_ctrl_handler_enter(CTRL_C_EVENT)
    \/ win32_ctrl_handler_call
    \/ win32_ctrl_handler_elif
    \/ win32_ctrl_handler_event
    \/ ProcessEnds
    \/ \E t \in TimerIds : alarm_timer_callback_enter(t)
    \/ \E t \in TimerIds : alarm_timer_callback_call(t)
    \/ \E t \in TimerIds : alarm_timer_callback_event(t)
    \/ \E w \in ThreadIds : WatcherThread(w)
SpecVisible == Init /\ [][NextVisible]_vars

\* durations up to the largest whose milliseconds fit in 32 bits, and beyond
WideDurations == {0, 1, 65536, 4294967, 4294968, 2147483647}

\* The alarm armed with durations of any size, with expirations.
NextAlarmWide ==
    \/ win32_signal(SIGALRM, "h1")
    \/ \E d \in WideDurations : win32_alarm(d)
    \/ \E t \in TimerIds : alarm_timer_callback_enter(t)
    \/ \E t \in TimerIds : alarm_timer_callback_call(t)
    \/ \E t \in TimerIds : alarm_timer_callback_event(t)
SpecAlarmWide == Init /\ [][NextAlarmWide]_vars

\* Initialization repeated, with and without a teardown in between, while
\* the watcher threads run.
NextReinit ==
    \/ win32_signals_init(TRUE, TRUE, TRUE)
    \/ win32_signals_init_again
    \/ win32_signals_cleanup
    \/ win32_signals_cleanup_join
    \/ win32_signals_cleanup_finish
    \/ signal_ciao_main(2, Decimal(pid))
    \/ \E w \in ThreadIds : ext_interrupt_watcher_loop(w)
    \/ \E w \in ThreadIds : ext_interrupt_watcher_wake(w)
    \/ \E w \in ThreadIds : ext_interrupt_watcher_event(w)
SpecReinit == Init /\ [][NextReinit]_vars

\* Initialization: any of the three events may fail to be created; the host
\* waits, tears down and initializes again.
NextInit ==
    \/ \E okI, okA, okE \in BOOLEAN : win32_signals_init(okI, okA, okE)
    \/ win32_signals_cleanup
    \/ \E tmo \in Timeouts : win32_wait_interrupt(tmo)
    \/ signal_ciao_main(2, Decimal(pid))
    \/ \E w \in ThreadIds : ext_interrupt_watcher_loop(w)
    \/ \E w \in ThreadIds : ext_interrupt_watcher_wake(w)
    \/ \E w \in ThreadIds : ext_interrupt_watcher_event(w)
    \/ HostReturns

SpecInit == Init /\ [][NextInit]_vars

\* The alarm armed from two host threads, with expirations and teardown.
NextAlarmThreads ==
    \/ win32_signals_init(TRUE, TRUE, TRUE)
    \/ win32_signals_cleanup
    \/ \E d \in {0, 1} : win32_alarm(d)
    \/ \E d \in {0, 1} : win32_alarm_test(d)
    \/ win32_alarm_delete
    \/ \E ok \in BOOLEAN : win32_alarm_create(ok)
    \/ \E t \in TimerIds : alarm_timer_callback_enter(t)
    \/ \E t \in TimerIds : alarm_timer_callback_event(t)
    \/ \E w \in ThreadIds : ext_interrupt_watcher_loop(w)
    \/ \E w \in ThreadIds : ext_interrupt_watcher_wake(w)
    \/ \E w \in ThreadIds : ext_interrupt_watcher_event(w)
    \/ win32_signals_cleanup_join
    \/ win32_signals_cleanup_finish
SpecAlarmThreads == Init /\ [][NextAlarmThreads]_vars

\* --------------------------------------------------- build_command_line
\* arguments in an argv vector
MaxArgs == 3
\* arguments as sequences of characters: empty, a letter, a space, a tab, a
\* double quote, a backslash, and longer ones that mix them
SampleArgs == {<<>>, <<"a">>, <<" ">>, <<"\t">>, <<"\"">>, <<"\\">>,
               <<"a", " ", "b">>, <<"a", "\"", "\\">>}
Argvs == UNION {[1..n -> SampleArgs] : n \in 1..MaxArgs}

\* quotes for an argument with a space only
NeedsQuotesSpaceOnly(arg) == \E k \in 1..Len(arg) : arg[k] = " "

\* process_win32.c:60-62
NeedsQuotes(arg) ==
    \/ \E k \in 1..Len(arg) : arg[k] = " "
    \/ \E k \in 1..Len(arg) : arg[k] = "\t"
    \/ arg = <<>>

\* process_win32.c:56-71, the loop from argument i on, appended to line
RECURSIVE BuildFrom(_, _, _)
BuildFrom(argv, i, line) ==
    IF i > Len(argv) THEN line
    ELSE LET sep == IF i > 1 THEN <<" ">> ELSE <<>>
             q == IF NeedsQuotes(argv[i]) THEN <<"\"">> ELSE <<>>
         IN  BuildFrom(argv, i + 1, line \o sep \o q \o argv[i] \o q)

\* process_win32.c:43-75 when malloc succeeds: the line as a sequence of
\* characters, its terminator left out
BuildCommandLine(argv) == BuildFrom(argv, 1, <<>>)

\* one application of build_command_line per run
build_command_line(argv) ==
    /\ HostStep
    /\ calls = 0
    /\ obs' = Obs("build_command_line", <<>>, <<BuildCommandLine(argv)>>,
                  [argv |-> argv])
    /\ UNCHANGED <<statics, registry, kernel, threads, hist, proc>>

NextCommandLine == \E argv \in Argvs : build_command_line(argv)
SpecCommandLine == Init /\ [][NextCommandLine]_vars

\* The mask against delivery: the host changes the mask while console events
\* arrive.
NextMask ==
    \/ win32_signals_init(TRUE, TRUE, TRUE)
    \/ \E how \in {SIG_BLOCK, SIG_UNBLOCK, SIG_SETMASK}, hasSet, hasOld \in BOOLEAN :
         \E set \in SUBSET MaskSignals : win32_sigprocmask(how, hasSet, set, hasOld)
    \/ win32_signal(SIGINT, "h1")
    \/ win32_ctrl_handler_enter(CTRL_C_EVENT)
    \/ win32_ctrl_handler_call
    \/ win32_ctrl_handler_event
SpecMask == Init /\ [][NextMask]_vars

\* spawning and closing
NextSpawn ==
    \/ \E rin, rout, rerr, crash \in BOOLEAN :
         \E fail \in SpawnFailures \cup {"none"} :
            win32_create_process(rin, rout, rerr, fail, crash)
    \/ win32_close_process
SpecSpawn == Init /\ [][NextSpawn]_vars

\* waiting for a child
NextWait ==
    \/ \E rout \in BOOLEAN, fail \in {"none", "ERROR_FILE_NOT_FOUND"} :
         win32_create_process(FALSE, rout, FALSE, fail, FALSE)
    \/ \E t \in Timeouts : win32_wait_process(t)
    \/ win32_wait_process_return
    \/ \E h \in HandleIds, code \in ExitCodes : child_exits(h, code)
    \/ win32_close_process
    \/ win32_fork_stub
SpecWait == Init /\ [][NextWait]_vars
\* WaitForSingleObject returns once the process handle is signalled or the
\* bound has elapsed
SpecWaitFair == SpecWait /\ WF_vars(win32_wait_process_return)

\* signalling other processes, and the fork stub
NextKill ==
    \/ \E t \in OtherPids, sig \in {0, SIGINT, SIGTERM}, open, term \in BOOLEAN :
         win32_kill_other(t, sig, open, term)
    \/ \E handler \in {SIG_IGN, "h1"} : win32_signal(SIGINT, handler)
    \/ \E p \in {0} \cup Pids : win32_kill(p, SIGINT)
    \/ \E rout \in BOOLEAN, fail \in {"none", "ERROR_ACCESS_DENIED"} :
         win32_create_process(FALSE, rout, FALSE, fail, FALSE)
    \/ win32_close_process
    \/ win32_fork_stub
SpecKill == Init /\ [][NextKill]_vars

\* replacing the process image
NextExec ==
    \/ \E fail \in SpawnFailures \cup {"none"}, crash \in BOOLEAN :
         win32_execvp(fail, crash)
    \/ win32_execvp_wait
    \/ win32_execvp_close
    \/ win32_execvp_exit
    \/ \E h \in HandleIds, code \in ExitCodes : child_exits(h, code)
    \/ \E rout \in BOOLEAN :
         win32_create_process(FALSE, rout, FALSE, "none", FALSE)
    \/ win32_close_process
SpecExec == Init /\ [][NextExec]_vars

\* Everything at once.
Next ==
    \/ \E p \in {0} \cup Pids, sig \in {SIGINT, SIGTERM} : win32_kill(p, sig)
    \/ \E okI, okA, okE \in BOOLEAN : win32_signals_init(okI, okA, okE)
    \/ NextAlarm
    \/ NextRegistry
    \/ NextInterrupt
    \/ NextExternal
    \/ NextChannel
    \/ NextInit
    \/ NextAlarmWide
    \/ NextVisible
    \/ NextAlarmHandler
    \/ NextReinit
    \/ NextMask
    \/ NextCommandLine
    \/ NextAlarmThreads
    \/ NextSpawn
    \/ NextWait
    \/ NextKill
    \/ NextExec

Spec == Init /\ [][Next]_vars

\* ------------------------------------------------------------ the alarm
PendingTimers == {t \in TimerIds : timers[t].st = "pending"}
LiveTimers == {t \in TimerIds : timers[t].st \in {"pending", "running"}}

\* C1: when win32_alarm with a positive duration finds the timer of an
\* earlier call still pending, that timer is cancelled and its callback never
\* runs; the callback of the timer that replaces it runs at most once; at
\* most one timer is pending at any time, the one g_alarm_timer holds.
C1_CancelAndReplace ==
    /\ Cardinality(PendingTimers) <= 1
    /\ PendingTimers \subseteq {g_alarm_timer}
    /\ \A t \in TimerIds :
          timers[t].sup /\ timers[t].by /= NULL =>
             /\ timers[t].st = "deleted"
             /\ timers[t].runs = 0
             /\ timers[timers[t].by].runs <= 1

\* C1: a timer was replaced while pending and the timer that replaced it
\* has expired and run its callback
C1_Witness ==
    \E t \in TimerIds :
       /\ timers[t].sup /\ timers[t].by /= NULL
       /\ timers[timers[t].by].st = "done"
       /\ timers[timers[t].by].runs = 1

\* C2: win32_alarm(0) returns 0 and leaves no timer behind, neither pending
\* nor running, and g_alarm_timer empty; a timer it found pending is
\* cancelled and its callback never runs.
C2_ZeroCancels ==
    /\ obs.op = "alarm" /\ obs.info.seconds = 0 =>
          /\ obs.ret = <<0>>
          /\ g_alarm_timer = NULL
          /\ LiveTimers = {}
          /\ obs.info.old /= NULL => timers[obs.info.old].st = "deleted"
    /\ \A t \in TimerIds :
          timers[t].sup /\ timers[t].by = NULL =>
             timers[t].st = "deleted" /\ timers[t].runs = 0

\* C2: win32_alarm(0) has just returned, having found a timer pending
C2_Witness ==
    /\ obs.op = "alarm" /\ obs.info.seconds = 0
    /\ obs.info.old /= NULL
    /\ timers[obs.info.old].sup

CallsOf(seen) == IF seen \in Callbacks THEN <<seen>> ELSE <<>>

\* C4: win32_kill on the process itself with SIGINT calls the interrupt
\* handler once, within the call, iff it is an installed callback, returns 0
\* and leaves the interrupt indicator as it was; with the default or ignore
\* disposition it calls nothing and returns 0.
C4_KillSelfInterrupt ==
    obs.op = "kill" /\ obs.info.sig = SIGINT =>
       /\ obs.ret = <<0>>
       /\ obs.inv = CallsOf(g_sigint_handler)
       /\ IntrState = obs.pre

\* C4: kill on the process itself has just called the installed handler,
\* with the interrupt indicator clear before and after
C4_Witness ==
    /\ obs.op = "kill" /\ obs.info.sig = SIGINT
    /\ obs.inv = <<"h1">> /\ obs.ret = <<0>>
    /\ obs.pre = "clear" /\ IntrState = "clear"

\* C6: on CTRL_C_EVENT or CTRL_BREAK_EVENT, with no registration while the
\* callback is in flight: an installed callback is called once, the
\* interrupt indicator is then set and TRUE (handled) returned; ignore:
\* nothing is called, the indicator is set, TRUE returned; default: nothing
\* is called, the indicator is left as it was, FALSE (not handled) returned.
\* The call of the handler itself does not change the indicator.
C6_ConsoleInterrupt ==
    /\ obs.op = "ctrl_call" => IntrState = obs.pre
    /\ obs.op = "ctrl_return"
          /\ obs.info.type \in {CTRL_C_EVENT, CTRL_BREAK_EVENT}
          /\ obs.info.stable =>
          LET c == obs.info IN
          /\ c.inv = CallsOf(c.seen)
          /\ c.seen /= SIG_DFL =>
                /\ obs.ret = <<TRUE>>
                /\ g_interrupt_event /= NULL => IntrState = "set"
          /\ c.seen = SIG_DFL =>
                /\ obs.ret = <<FALSE>>
                /\ IntrState = obs.pre

\* C6: a break event has just been handled by the installed callback and
\* has set the indicator
C6_Witness ==
    /\ obs.op = "ctrl_return"
    /\ obs.info.type = CTRL_BREAK_EVENT /\ obs.info.stable
    /\ obs.info.inv = <<"h2">> /\ obs.ret = <<TRUE>>
    /\ obs.pre = "clear" /\ IntrState = "set"

\* ------------------------------------------------ the interrupt indicator
\* C7: only a satisfied win32_wait_interrupt, or the teardown, takes the
\* interrupt indicator out of the set state; the satisfied wait returns 0 and
\* leaves it clear, so that a later wait is satisfied only after a delivery
\* (console callback or watcher) has set it again.
C7_StaysSetUntilObserved ==
    /\ obs.pre = "set" /\ IntrState /= "set" =>
          \/ obs.op = "wait_interrupt" /\ obs.ret = <<0>> /\ IntrState = "clear"
          \/ obs.op = "cleanup" /\ IntrState = "none"
    /\ obs.op = "wait_interrupt" /\ obs.ret = <<0>> =>
          obs.pre = "set" /\ IntrState = "clear"
    /\ obs.op = "wait_interrupt" /\ obs.pre = "set" => obs.ret = <<0>>
    /\ obs.pre /= "set" /\ IntrState = "set" =>
          obs.op \in {"ctrl_return", "watcher_event"}

\* C7: a wait has just observed the indicator and left it clear
C7_Witness ==
    /\ obs.op = "wait_interrupt" /\ obs.ret = <<0>>
    /\ obs.pre = "set" /\ IntrState = "clear"

\* C10 as stated: the result of a wait whose bound elapsed differs from the
\* result of a wait on an uninitialized subsystem
C10_TimedOutDiffersFromError ==
    obs.op = "wait_interrupt" /\ obs.info = "timed_out" =>
       obs.ret /= <<NotInitializedReturn>>

\* C10: win32_wait_interrupt has two results: 0 iff the indicator was or
\* became set within the bound, and -1 both when the bound elapsed with the
\* indicator never set and when there is no indicator.
C10_TwoResults ==
    obs.op = "wait_interrupt" =>
       /\ obs.info \in {"interrupted", "timed_out", "error"}
       /\ obs.info = "interrupted" <=> obs.pre = "set"
       /\ obs.info = "timed_out" <=> obs.pre = "clear"
       /\ obs.info = "error" <=> obs.pre = "none"
       /\ obs.ret = IF obs.info = "interrupted" THEN <<0>> ELSE <<-1>>

\* C10: a wait has just returned because its bound elapsed
C10_Witness ==
    /\ obs.op = "wait_interrupt" /\ obs.info = "timed_out"
    /\ obs.ret = <<-1>> /\ host.pc = "idle" /\ IntrState = "clear"

\* ------------------------------------------------------------ the registry
\* the registry slot of a logical signal
Slot(sig) == CASE sig = SIGINT -> g_sigint_handler
               [] sig = SIGALRM -> g_sigalrm_handler
               [] sig = SIGUSR1 -> g_sigusr1_handler

\* C5: win32_signal(sig, h) for SIGINT, SIGALRM or SIGUSR1 stores h in the
\* slot of sig and returns what the slot held before the call; the other
\* two slots, the events (so the interrupt indicator), the timers and
\* g_alarm_timer are unchanged and no handler is called. No other step
\* writes a slot, so the next registration for sig returns h.
C5_SwapAndReturn ==
    [][ /\ \A sig \in LogicalSignals :
              obs'.op = "signal" /\ obs'.info.sig = sig =>
                 /\ Slot(sig)' = obs'.info.handler
                 /\ obs'.ret = <<Slot(sig)>>
                 /\ \A other \in LogicalSignals \ {sig} : Slot(other)' = Slot(other)
                 /\ obs'.inv = <<>>
                 /\ UNCHANGED <<statics, events>>
                 /\ \A t \in TimerIds :
                       timers'[t] = [timers[t] EXCEPT !.stable = timers'[t].stable]
        /\ registry' /= registry => obs'.op = "signal" ]_vars

\* C5: a second registration for SIGUSR1 has just returned the callback the
\* first one stored, with an alarm armed and the interrupt indicator set
C5_Witness ==
    /\ obs.op = "signal" /\ obs.info.sig = SIGUSR1 /\ obs.info.handler = "h2"
    /\ obs.ret = <<"h1">> /\ g_sigusr1_handler = "h2"
    /\ g_sigint_handler = SIG_DFL /\ g_sigalrm_handler = SIG_DFL
    /\ g_alarm_timer /= NULL /\ IntrState = "set"

\* ------------------------------------------------- the external channel
\* two or more signals were delivered before the first win32_wait_interrupt
\* call and none since
TwoBeforeFirstWait == hist.firstAt >= 2 /\ hist.sent = hist.firstAt

\* C8 as stated: two signals delivered on the channel before the first
\* win32_wait_interrupt call, and none after it, are observed as at most one
\* interruption
C8_ExactlyOneObserved ==
    TwoBeforeFirstWait => hist.got <= 1

\* C8: when the watcher has handled every delivered signal before the first
\* win32_wait_interrupt call (the channel is drained and no watcher is
\* between its wait and its SetEvent), that call returns interrupted and no
\* later call does while nothing more is delivered: one interruption is
\* observed.
C8_OneObservedOnceHandled ==
    TwoBeforeFirstWait /\ hist.quiet =>
       /\ hist.got = 1
       /\ IntrState = "clear"
       /\ obs.op = "wait_interrupt" /\ hist.waits >= 2 => obs.ret = <<-1>>

\* C8: after two handled deliveries a first wait returned interrupted and a
\* second one has just timed out
C8_Witness ==
    /\ TwoBeforeFirstWait /\ hist.quiet
    /\ hist.waits = 2 /\ hist.got = 1
    /\ obs.op = "wait_interrupt" /\ obs.info = "timed_out"

\* the subsystem is initialized and its teardown has not begun
Serving == g_ext_interrupt_event /= NULL /\ g_ext_interrupt_shutdown = 0

\* the helper signals the channel iff it is given one argument, the decimal
\* identifier of a process whose channel exists
HelperReachesChannel ==
    obs.op = "signal_ciao" =>
       /\ obs.ret = <<0>> <=>
             obs.info.argc = 2 /\ obs.info.arg = Decimal(pid) /\ ext.st /= "none"
       /\ obs.ret = <<0>> => ext.st = "set"

\* a signal leaves the channel only by satisfying the wait of a watcher,
\* which goes on to the call of the handler iff one is installed, or by the
\* teardown closing the channel
ConsumedByWatcher ==
    ext.st = "set" /\ ext'.st /= "set" =>
       \/ /\ obs'.op = "watcher_wake" /\ obs'.info = WAIT_OBJECT_0
          /\ \E w \in ThreadIds :
                /\ watcher[w].pc = "wait"
                /\ watcher'[w].pc = IF g_sigint_handler \in Callbacks
                                    THEN "call" ELSE "event"
       \/ obs'.op = "cleanup_join"

\* the watcher's last step for a signal: it has called the handler iff one
\* was installed (no registration during the call) and sets the indicator
WatcherSetsIndicator ==
    obs.op = "watcher_event" =>
       /\ obs.info.stable => obs.info.inv = CallsOf(obs.info.seen)
       /\ g_interrupt_event /= NULL => IntrState = "set"

\* C9: while the subsystem serves, a signal on the channel named
\* "CiaoInterrupt_" followed by the decimal process identifier, as the
\* helper given that identifier sets it, is eventually consumed by a
\* watcher, and a watcher that consumed a signal eventually calls the
\* interrupt handler, iff one is installed, and sets the interrupt indicator.
C9_ExternalSignalHandled ==
    /\ [](HelperReachesChannel /\ WatcherSetsIndicator)
    /\ [][ConsumedByWatcher]_vars
    /\ (ext.st = "set" /\ Serving) ~> (ext.st /= "set" \/ ~Serving)
    /\ \A w \in ThreadIds :
          (watcher[w].pc \in {"call", "event"}) ~> (watcher[w].pc = "loop")

\* C9: with no teardown so far, a watcher has just called the installed
\* handler for a signal of the helper and set the interrupt indicator
C9_Witness ==
    /\ obs.op = "watcher_event" /\ obs.info.inv = <<"h1">>
    /\ obs.pre = "clear" /\ IntrState = "set"
    /\ Serving /\ stimuli = 1 /\ calls = 2

\* ---------------------------------------------------------- initialization
\* the unnamed events that exist
OpenEvents == {e \in EventIds : events[e] \in {"clear", "set"}}

\* C11: when win32_signals_init returns -1 because one of the two events
\* could not be created, nothing is left: no event exists, both references
\* are NULL, the console-control callback is not installed, and there is no
\* external channel and no watcher thread.
C11_InitFailureLeavesNothing ==
    obs.op = "init" /\ obs.ret = <<-1>> =>
       /\ OpenEvents = {}
       /\ g_interrupt_event = NULL /\ g_alarm_event = NULL
       /\ ctrlInstalled = 0
       /\ ext.st = "none" /\ g_ext_interrupt_event = NULL
       /\ g_ext_interrupt_thread = NULL

\* ------------------------------------------------- the process record
\* the descriptor is valid: it is open and wraps an open pipe handle
ValidFd(fd) ==
    /\ fd >= 0
    /\ fd \in FdIds
    /\ proc.fds[fd] /= NULL
    /\ proc.handles[proc.fds[fd]] = "open"

C13_FailureClosesEveryPipe ==
    obs.op = "create_process" /\ obs.ret = <<-1>> =>
       \A e \in obs.info.made :
          /\ proc.handles[e[2]] = "closed"
          /\ proc.closes[e[2]] = 1

\* the native process creation failed after all three pipes were made, and
\* the third pipe failed after two were made
C13_Witness ==
    /\ obs.op = "create_process"
    /\ obs.ret = <<-1>>
    /\ \/ obs.info.fail \in CreateFailures /\ Cardinality(obs.info.made) = 6
       \/ obs.info.fail = "stderr_pipe" /\ Cardinality(obs.info.made) = 4
    /\ \A e \in obs.info.made : proc.closes[e[2]] = 1

\* the error category the failing step calls for
Category(fail) ==
    CASE fail \in {"ERROR_FILE_NOT_FOUND", "ERROR_PATH_NOT_FOUND"} -> "ENOENT"
      [] fail = "ERROR_ACCESS_DENIED" -> "EACCES"
      [] OTHER -> "ECHILD"

\* C14: every failing spawn reports exactly one of three error categories,
\* whichever step failed: not-found for a missing executable path,
\* access-denied for a permission failure, generic spawn failure for
\* anything else, pipe-creation and command-line allocation failures
\* included; the error is set by the failing call, never left over.
C14_CategorizedError ==
    obs.op = "create_process" /\ obs.ret = <<-1>> =>
       proc.errno = Category(obs.info.fail)

\* ------------------------------------------------------------ the wait
\* the record is live: its process handle is open
LiveRecord == proc.info.hProcess /= NULL /\ proc.handles[proc.info.hProcess] = "open"

\* a wait returned still-running / exited
StillRunning == obs.op = "wait_process" /\ obs.ret = <<1>>
ReturnedExited == obs.op = "wait_process" /\ Len(obs.ret) = 2 /\ obs.ret[1] = 0

\* a wait on a live record returns still-running only while the child has not
\* exited, and exited only with the exit code of a child that has exited
WaitResultIsTrue ==
    obs.op = "wait_process" /\ LiveRecord =>
       /\ StillRunning \/ ReturnedExited
       /\ StillRunning => ~Exited(proc, proc.info.hProcess)
       /\ ReturnedExited =>
            /\ Exited(proc, proc.info.hProcess)
            /\ obs.ret[2] = proc.child[proc.info.hProcess].code

\* a wait that returns still-running changes neither the record nor what it
\* designates
TimeoutKeepsRecord ==
    StillRunning' =>
       /\ proc'.info = proc.info
       /\ proc'.handles = proc.handles
       /\ proc'.fds = proc.fds
       /\ proc'.child = proc.child

\* a wait that is blocked on a child that has terminated
BlockedOnExited == host.pc = "wait_process" /\ Exited(proc, host.h)

\* C15: a wait on a live record whose child has not exited within the bound
\* returns still-running and leaves the record unchanged; a later wait on
\* the record, with an infinite bound too, eventually returns exited with
\* the child's exit code once the child has terminated, and no wait returns
\* exited while the child is still running.
C15_WaitTimeoutThenExit ==
    /\ []WaitResultIsTrue
    /\ [][TimeoutKeepsRecord]_vars
    /\ (BlockedOnExited ~> ReturnedExited)

\* the only child of the run: a wait returned still-running (it set EAGAIN),
\* and a later wait on the same record returned exited with code 7
C15_Witness ==
    /\ ReturnedExited
    /\ obs.ret[2] = 7
    /\ obs.info = "exited"
    /\ proc.errno = "EAGAIN"
    /\ proc.next = HandlesPerSpawn + 1

\* ------------------------------------------------------------ the close
\* the handles a close of the record closed: the process and thread
\* handles, and the pipe handles behind its descriptors
ClosedByClose == obs.info.held.handles \cup obs.info.wrapped

\* C16: close on a process record closes each pipe descriptor and each
\* process/thread handle present in it exactly once and resets the record
\* to the all-sentinel state; a second close on the record closes nothing
\* and leaves it all-sentinel, so no descriptor or handle is ever closed
\* twice.
C16_CloseOnceThenNothing ==
    /\ \A h \in HandleIds : proc.closes[h] <= 1
    /\ ~proc.badClose
    /\ obs.op = "close_process" =>
          /\ proc.info = NoInfo
          /\ \A f \in obs.info.held.fds : proc.fds[f] = NULL
          /\ \A h \in HandleIds :
                IF h \in ClosedByClose
                THEN proc.handles[h] = "closed" /\ obs.info.closes[h] = 0
                ELSE proc.closes[h] = obs.info.closes[h]
                     /\ (proc.handles[h] = "closed" <=> proc.closes[h] = 1)

\* a second close of a record: the first closed its process and thread
\* handles and the pipe behind a descriptor, this one found nothing to close
C16_Witness ==
    /\ obs.op = "close_process"
    /\ ClosedByClose = {}
    /\ obs.info.held.fds = {}
    /\ proc.info = NoInfo
    /\ \E h \in HandleIds : proc.child[h].st = "running" /\ proc.closes[h] = 1
    /\ Cardinality({h \in HandleIds : proc.closes[h] = 1}) >= 4

\* ------------------------------------------------------------- the exec
\* C17: exec performs, in this order, a spawn with no stream redirected, a
\* wait with an infinite bound, a close of the record, and then terminates
\* the calling process with exactly the exit code the child exited with; it
\* never returns to its caller when the spawn succeeded, and when the spawn
\* fails it returns an error without terminating the calling process.
C17_ExecSpawnsWaitsClosesExits ==
    /\ obs.op = "execvp_exit" =>
          /\ proc.steps = <<"spawn", "wait", "close", "exit">>
          /\ host.tmo = "INFINITE"
          /\ alive = "dead"
          /\ proc.exit = obs.info.child
          /\ proc.local = NoInfo
    /\ obs.op = "execvp_spawned" =>
          /\ obs.info.fail = "none"
          /\ host.pc = "exec_wait"
          /\ proc.local.stdin_fd = -1
          /\ proc.local.stdout_fd = -1
          /\ proc.local.stderr_fd = -1
    /\ host.pc \in {"exec_wait", "exec_close", "exec_exit"} => obs.op /= "execvp"
    /\ obs.op \in {"execvp", "execvp_crash"} =>
          /\ obs.info.fail \in SpawnFailures
          /\ obs.ret = <<-1>>
          /\ alive /= "dead"

\* ------------------------------------------------- kill, other processes
\* C18: kill on a process other than the caller. With signal 0 it is an
\* existence probe: success if the process can be opened for query,
\* otherwise failure with the not-found error, and nothing is terminated.
\* With a nonzero signal it terminates the target and returns success, fails
\* with not-found when the target cannot be opened and with
\* permission-denied when termination is refused. Every failing call sets
\* one of these categorized errors.
C18_KillOtherCategorized ==
    obs.op = "kill_other" =>
       LET i == obs.info IN
       /\ i.sig = 0 =>
             /\ proc.others = i.before.others
             /\ obs.ret = IF i.open THEN <<0>> ELSE <<-1>>
             /\ ~i.open => proc.errno = "ESRCH"
       /\ i.sig /= 0 =>
             /\ i.open /\ i.term =>
                   obs.ret = <<0>> /\ proc.others[i.pid] = "terminated"
             /\ ~i.open => obs.ret = <<-1>> /\ proc.errno = "ESRCH"
             /\ i.open /\ ~i.term => obs.ret = <<-1>> /\ proc.errno = "EPERM"
       /\ obs.ret = <<-1>> => proc.errno \in {"ESRCH", "EPERM"}

\* ------------------------------------------------------------- the fork
\* C19: fork emulation fails on every call, in any state: it returns the
\* failure value with the not-supported error, creates no process, and
\* changes no signal-subsystem or process-record state.
C19_ForkAlwaysFails ==
    [][obs'.op = "fork" =>
          /\ obs'.ret = <<-1>>
          /\ proc'.errno = "ENOSYS"
          /\ [proc' EXCEPT !.errno = proc.errno] = proc
          /\ UNCHANGED <<statics, registry, kernel, threads>>]_vars

\* fork was called while a handler was installed and a spawned child's
\* record was live
C19_Witness ==
    /\ obs.op = "fork"
    /\ obs.ret = <<-1>>
    /\ g_sigint_handler = "h1"
    /\ proc.info.hProcess /= NULL
    /\ proc.errno = "ENOSYS"

\* ------------------------------------------- the alarm, two host threads
\* C20: in every reachable state, under any interleaving of win32_alarm
\* calls (zero or positive duration, from any host thread), timer
\* expirations and teardown, at most one alarm timer is live in the process,
\* and g_alarm_timer designates it.
C20_AtMostOneLiveTimer ==
    /\ Cardinality(LiveTimers) <= 1
    /\ \A t \in LiveTimers : g_alarm_timer = t

\* --------------------------------------------------------- the teardown
\* the watcher thread w has started and has not left its loop
InLoop(w) == watcher[w].pc \in {"loop", "wait", "call", "event"}

\* teardown has woken the channel only with the shutdown flag set
FlagBeforeWake ==
    obs.op = "cleanup_begin" /\ host.pc = "join" => g_ext_interrupt_shutdown = 1

\* no step of teardown changes what a watcher thread is doing
NeverForced ==
    obs'.op \in {"cleanup_begin", "cleanup_join", "cleanup"} => watcher' = watcher

\* C21: teardown sets the shutdown flag before waking the external channel,
\* never force-terminates the watcher, and always returns after at most the
\* bounded join wait; once the shutdown flag is set, the watcher thread
\* eventually leaves its loop and exits, handlers returning.
C21_TeardownStopsWatcher ==
    /\ []FlagBeforeWake
    /\ [][NeverForced]_vars
    /\ (host.pc \in {"join", "teardown"} ~> host.pc = "idle")
    /\ \A w \in ThreadIds :
          (g_ext_interrupt_shutdown = 1 /\ InLoop(w)) ~> (watcher[w].pc = "exit")

\* ------------------------------------------------------ the command line
\* the length argument i takes in the line, quotes included
Width(arg) == Len(arg) + (IF arg = <<>> \/ \E k \in 1..Len(arg) : arg[k] \in {" ", "\t"}
                          THEN 2 ELSE 0)

\* where argument i starts in the line, its opening quote included
RECURSIVE StartOf(_, _)
StartOf(argv, i) ==
    IF i = 1 THEN 1 ELSE StartOf(argv, i - 1) + Width(argv[i - 1]) + 1

\* C22: the line built from a1..an holds the arguments in order, separated
\* by exactly one space with no leading or trailing space; an argument is
\* wrapped in one pair of double quotes if and only if it is empty or
\* contains a space or a tab; the characters of every argument, embedded
\* double quotes and backslashes included, are copied unchanged.
C22_CommandLineLayout ==
    obs.op = "build_command_line" =>
       LET argv == obs.info.argv
           line == obs.ret[1]
           n == Len(argv)
       IN  /\ Len(line) = StartOf(argv, n) + Width(argv[n]) - 1
           /\ \A i \in 1..n :
                 LET arg == argv[i]
                     at == StartOf(argv, i)
                     quoted == Width(arg) = Len(arg) + 2
                     body == IF quoted THEN at + 1 ELSE at
                 IN  /\ quoted => line[at] = "\"" /\ line[at + Width(arg) - 1] = "\""
                     /\ \A k \in 1..Len(arg) : line[body + k - 1] = arg[k]
                     /\ i > 1 => line[at - 1] = " "

\* three arguments: one with a space inside, an empty one, and one with a
\* double quote and a backslash
C22_Witness ==
    /\ obs.op = "build_command_line"
    /\ obs.info.argv = <<<<"a", " ", "b">>, <<>>, <<"a", "\"", "\\">>>>
    /\ obs.ret[1] = <<"\"", "a", " ", "b", "\"", " ", "\"", "\"", " ", "a", "\"", "\\">>

\* ------------------------------------------------- session termination
SessionEnds == {CTRL_CLOSE_EVENT, CTRL_LOGOFF_EVENT, CTRL_SHUTDOWN_EVENT}

\* C23: on a session-termination console event (window close, logoff,
\* shutdown) win32_ctrl_handler sets the interrupt indicator, invokes no
\* registered handler whatever the interrupt disposition, and reports
\* not-handled.
C23_SessionEndSetsAndDeclines ==
    obs.op = "ctrl_return" /\ obs.info.type \in SessionEnds =>
       /\ obs.ret = <<FALSE>>
       /\ obs.info.inv = <<>>
       /\ obs.inv = <<>>
       /\ g_interrupt_event /= NULL /\ events[g_interrupt_event] /= "closed" =>
             events[g_interrupt_event] = "set"

\* a window close arrived while a callback was installed for the interrupt:
\* the indicator went from clear to set and the callback was not invoked
C23_Witness ==
    /\ obs.op = "ctrl_return"
    /\ obs.info.type = CTRL_CLOSE_EVENT
    /\ obs.ret = <<FALSE>>
    /\ g_sigint_handler \in Callbacks
    /\ obs.info.seen \in Callbacks
    /\ obs.pre = "clear"
    /\ events[g_interrupt_event] = "set"

\* --------------------------------------------------------------- the mask
\* a call of win32_sigprocmask reports the mask held before it when asked,
\* changes it as its operation says, and returns 0
MaskStep ==
    obs'.op = "sigprocmask" =>
       LET i == obs'.info IN
       /\ obs'.ret = <<0>>
       /\ i.hasOld => i.old = current_mask
       /\ ~i.hasSet => current_mask' = current_mask
       /\ i.hasSet /\ i.how = SIG_BLOCK => current_mask' = current_mask \cup i.set
       /\ i.hasSet /\ i.how = SIG_UNBLOCK => current_mask' = current_mask \ i.set
       /\ i.hasSet /\ i.how = SIG_SETMASK => current_mask' = i.set

\* nothing but win32_sigprocmask changes the mask, which is empty at first
MaskIsOne ==
    /\ obs.op = "-" => current_mask = {}
    /\ [][obs'.op /= "sigprocmask" => current_mask' = current_mask]_vars

\* an interrupt from the console reaches the installed callback and the
\* indicator whatever the mask holds
DeliveryIgnoresMask ==
    /\ obs.op = "ctrl_enter" /\ g_sigint_handler \in Callbacks => ctrl.pc = "call"
    /\ obs.op = "ctrl_call" => obs.inv /= <<>>
    /\ obs.op = "ctrl_return" /\ obs.ret = <<TRUE>> /\ g_interrupt_event /= NULL =>
          events[g_interrupt_event] = "set"

\* C24: the signal-mask stub is one process-wide mask, empty at first: each
\* call first reports the mask held before it when the caller asks, then
\* block stores the union with the argument, unblock removes the argument's
\* signals, set-mask stores the argument, and a call with no new set leaves
\* the mask unchanged; every call returns success, and the mask never
\* affects whether a callback invokes a handler or sets the indicator.
C24_MaskEchoesOnly ==
    /\ MaskIsOne
    /\ [][MaskStep]_vars
    /\ []DeliveryIgnoresMask

\* with the interrupt signal in the mask, a console interrupt has called the
\* installed callback and set the indicator
C24_Witness ==
    /\ SIGINT \in current_mask
    /\ obs.op = "ctrl_return"
    /\ obs.ret = <<TRUE>>
    /\ obs.info.inv = <<"h1">>
    /\ obs.pre = "clear"
    /\ events[g_interrupt_event] = "set"

\* ------------------------------------------------------- one watcher
\* the watcher threads that are running their loop
LoopingWatchers == {w \in ThreadIds : InLoop(w)}

\* C25: after any sequence of initialize and teardown calls (initialize
\* twice with no teardown, and initialize after a teardown whose bounded
\* join timed out and abandoned the watcher, included), at most one watcher
\* thread is running its loop at any time.
C25_AtMostOneWatcher == Cardinality(LoopingWatchers) <= 1

\* ------------------------------------------------- no use after teardown
\* C26: no thread uses the interrupt indicator or the external channel after
\* teardown has destroyed it: under every interleaving of teardown with the
\* watcher, an in-flight console callback and block-until-interrupt, no set
\* or wait is performed on an event handle that teardown has closed. Here:
\* no wait of a watcher fails because its handle is no longer valid.
C26_NoUseAfterTeardown ==
    obs.op = "watcher_wake" => obs.info /= WAIT_FAILED

\* --------------------------------------------- what a callback path calls
\* C27: under any interleaving of register-handler calls with the console
\* callback, the watcher, the alarm callback and kill on the process itself,
\* a callback path never calls one of the reserved values default or ignore
\* as a function: the value it calls is always an installed callback, even
\* when the slot is changed between the path's test and its call.
C27_CallsOnlyCallbacks ==
    obs.op \in {"ctrl_call", "watcher_call", "alarm_cb_call", "kill"} =>
       \A i \in DOMAIN obs.inv : obs.inv[i] \in Callbacks

\* ------------------------------------------- the command-line buffer
\* C28: on every path through spawn, successful or failing, the command-line
\* buffer the serializer allocated is released exactly once: never leaked
\* and never released twice, in particular when native process creation
\* fails after the buffer was built.
C28_CmdlineFreedOnce ==
    obs.op \in {"create_process", "create_process_crash"} =>
       obs.info.frees = IF CmdlineBuilt(obs.info.fail) THEN 1 ELSE 0

\* ------------------------------------------------- the wake of teardown
\* C29: the watcher invokes the registered interrupt handler and sets the
\* interrupt indicator only in response to an external interrupt request:
\* the wake that teardown itself sends on the external channel to unblock
\* the watcher causes neither. Here: while no helper has run, no watcher is
\* calling the handler or setting the indicator.
C29_TeardownWakeIsSilent ==
    stimuli = 0 => \A w \in ThreadIds : watcher[w].pc \notin {"call", "event"}

\* ------------------------------------------ what a spawn leaves open
\* the native handles a record owns: the process and thread handles and the
\* pipe ends its descriptors wrap
Owned(pr, info) ==
    Held(info).handles \cup {pr.fds[f] : f \in Held(info).fds}

\* the handles the step has created
Created == {h \in HandleIds : proc.handles[h] = "free" /\ proc'.handles[h] /= "free"}

\* the number of streams a request redirects
Redirected(i) ==
    Cardinality({x \in {<<1, i.rin>>, <<2, i.rout>>, <<3, i.rerr>>} : x[2]})

\* a successful spawn closes the child's pipe ends and hands every other
\* handle it created to the record, one descriptor per redirected stream
SpawnKeepsOrCloses ==
    obs'.op = "create_process" /\ obs'.ret = <<0>> =>
       LET owned == Owned(proc', proc'.info)
           childs == {e[2] : e \in {x \in obs'.info.made : x[1] \in ChildEnds}}
       IN  /\ Cardinality(Created) = 2 + 2 * Redirected(obs'.info)
           /\ owned \cup childs = Created
           /\ owned \cap childs = {}
           /\ \A h \in childs : proc'.handles[h] = "closed"
           /\ \A h \in owned : proc'.handles[h] = "open"
           /\ Cardinality(Held(proc'.info).fds) = Redirected(obs'.info)
           /\ Cardinality(Owned(proc', proc'.info)) = 2 + Redirected(obs'.info)

\* a close of the record releases everything the record owns
CloseReleasesOwned ==
    obs'.op = "close_process" =>
       /\ \A h \in Owned(proc, proc.info) : proc'.handles[h] = "closed"
       /\ \A f \in Held(proc.info).fds : proc'.fds[f] = NULL

C31_AlarmAlwaysReturns ==
    \A t \in TimerIds : (timers[t].pc = "alarm") ~> (timers[t].pc /= "alarm")

\* ------------------------------------------- registrations are visible
\* the slot of sig holds the handler of the last win32_signal(sig, .) that
\* returned: the call stores it and no other step writes a slot
SlotIsLastRegistered ==
    IF obs'.op = "signal"
    THEN \A sig \in LogicalSignals :
            Slot(sig)' = IF obs'.info.sig = sig THEN obs'.info.handler ELSE Slot(sig)
    ELSE registry' = registry

\* a delivery that starts tests the value its slot holds
StartsOnSlot ==
    /\ obs.op = "ctrl_enter" /\ IsInterruptOrBreak(obs.info) =>
          /\ ctrl.seen = g_sigint_handler
          /\ ctrl.pc = "call" <=> g_sigint_handler \in Callbacks
    /\ obs.op = "watcher_wake" /\ obs.info = WAIT_OBJECT_0 =>
          \A w \in ThreadIds : watcher[w].pc = "call" =>
             watcher[w].seen = g_sigint_handler /\ g_sigint_handler \in Callbacks
    /\ obs.op = "watcher_wake" /\ obs.info = WAIT_OBJECT_0
          /\ g_sigint_handler \in Callbacks =>
          \A w \in ThreadIds : watcher[w].pc /= "event"
    /\ obs.op = "alarm_cb_enter" =>
          /\ timers[obs.info].seen = g_sigalrm_handler
          /\ timers[obs.info].pc = "call" <=> g_sigalrm_handler \in Callbacks

\* with no registration since it started, a delivery calls the value of the
\* slot; kill on the process itself calls it within the call
CallsTheSlot ==
    /\ obs.op = "ctrl_call" /\ ctrl.stable => obs.inv = <<g_sigint_handler>>
    /\ obs.op = "watcher_call" /\ watcher[obs.info].stable =>
          obs.inv = <<g_sigint_handler>>
    /\ obs.op = "alarm_cb_call" /\ timers[obs.info].stable =>
          obs.inv = <<g_sigalrm_handler>>
    /\ obs.op = "kill" /\ obs.info.sig = SIGINT => obs.inv = CallsOf(g_sigint_handler)

\* C32: a handler registration is visible to every callback delivered after
\* register-handler has returned: a console-control, watcher, alarm or
\* kill(self) delivery that starts after register-handler(sig, h) returned,
\* with no later registration for sig, acts on h and never on the value h
\* replaced.
C32_RegistrationVisible ==
    /\ [][SlotIsLastRegistered]_vars
    /\ [](StartsOnSlot /\ CallsTheSlot)

\* h1 was registered and then replaced by h2; a request of the helper that
\* the watcher took up afterwards has called h2
C32_Witness ==
    /\ obs.op = "watcher_call"
    /\ obs.inv = <<"h2">>
    /\ watcher[obs.info].stable
    /\ g_sigint_handler = "h2"
    /\ calls = 3 /\ stimuli = 1

\* ------------------------------------------------ the alarm's due time
\* seconds * 1000 in full, as <<what exceeds 32 bits, high half, low half>>
Milliseconds(seconds) ==
    LET low == (seconds % Half) * 1000
        high == (seconds \div Half) * 1000 + low \div Half
    IN  <<high \div Half, high % Half, low % Half>>

\* C33: for every positive duration d given to arm-alarm as an unsigned
\* 32-bit number of seconds, the one-shot timer is scheduled to fire after
\* d seconds, that is after d*1000 milliseconds, including for durations
\* where d*1000 does not fit in 32 bits.
C33_DueAfterSeconds ==
    obs.op = "alarm" /\ obs.info.seconds > 0 /\ g_alarm_timer /= NULL =>
       <<0>> \o timers[g_alarm_timer].ms = Milliseconds(obs.info.seconds)

\* ------------------------------------------- wait on a sentinel record
\* a wait the host starts on a record in the all-sentinel state returns in
\* the same step with the error result and changes nothing but errno
WaitOnSentinel ==
    host.pc = "idle" /\ proc.info = NoInfo
       /\ obs'.op \in {"wait_process", "wait_process_block"} =>
          /\ obs'.op = "wait_process"
          /\ obs'.ret = <<-1>>
          /\ obs'.info = "error"
          /\ host'.pc = "idle"
          /\ proc' = [proc EXCEPT !.errno = "ECHILD"]

\* C34: wait invoked on a process record in the all-sentinel state (after
\* close, or after a failed spawn) returns error, never exited or
\* still-running, and does not block, even with an infinite bound; it leaves
\* the record in the all-sentinel state.
C34_WaitOnSentinelFails == [][WaitOnSentinel]_vars

\* a child was spawned and its record closed while it was running; a wait
\* on the closed record has returned the error result
C34_Witness ==
    /\ obs.op = "wait_process"
    /\ obs.ret = <<-1>>
    /\ proc.info = NoInfo
    /\ proc.errno = "ECHILD"
    /\ \E h \in HandleIds :
          proc.child[h].st = "running" /\ proc.handles[h] = "closed"

====
